---------------------------- MODULE Spec2Model ----------------------------
(***************************************************************************)
(* Batch analysis pipeline of LineGuard-AI (bff-service).                  *)
(*                                                                         *)
(* The model follows one batch job through                                 *)
(*   - the Intake API   (app/api/analysis.py: create_batch_task),          *)
(*   - the Task Store   (app/services/analysis_tasks.py),                  *)
(*   - the work queue   (app/services/queue.py, aio_pika),                 *)
(*   - the Worker       (app/workers/analysis_worker.py: worker,           *)
(*                       process_task),                                    *)
(*   - the HTTP mutators of the Intake API (delete, annotate, metrics).    *)
(*                                                                         *)
(* Every action is one suspension-free stretch of the code: it ends at an  *)
(* await on the database, the blob store, the detector or the broker.      *)
(* Database rows are visible to other sessions only after commit.          *)
(***************************************************************************)
EXTENDS Integers, Sequences, FiniteSets, TLC

(***************************************************************************)
(* Bounds of the model.                                                    *)
(***************************************************************************)
\* Largest number of files in the one submission the model follows.
MaxFiles == 2
\* Stands for the value 10 that the code uses for settings.PREVIEW_LIMIT,
\* settings.UPLOAD_PREVIEW_LIMIT and the fetch limit of process_task.
ScaledTen == 1
\* Stands for the value 100 that the code uses for BATCH_SIZE and for the
\* modulus of the progress cadence.
ScaledHundred == 2
\* How many times the broker re-delivers the work message after a worker
\* lost it (process killed, connection dropped).
MaxRedeliveries == 1
\* How many mutating requests (delete, annotate, metrics) the Intake API
\* serves for the job.
MaxApiCalls == 1
\* How many such requests it serves for a job that is finished.
MaxMerges == 2
\* Stands for the 10 GiB of MAX_BATCH_SIZE_BYTES, in units of file size.
ScaledTenGiB == 5
\* Stands for the 30 attempts of the connection loops.
ScaledThirty == 3
\* How many WebSocket connections clients open to the Progress Hub.
MaxSockets == 3
\* How many progress events reach the fan-out exchange in a hub run.
MaxUpdates == 2

(***************************************************************************)
(* Program constants.                                                      *)
(***************************************************************************)
PREVIEW_LIMIT == ScaledTen
UPLOAD_PREVIEW_LIMIT == ScaledTen
FETCH_LIMIT == ScaledTen
BATCH_SIZE == ScaledHundred
PROGRESS_EVERY == ScaledHundred
\* 50,000 in the code; here the size of the smallest job whose staging
\* archive fills a chunk.  A submission can hold one file more.
MAX_BATCH_FILES == UPLOAD_PREVIEW_LIMIT + BATCH_SIZE
MAX_BATCH_SIZE_BYTES == ScaledTenGiB
SUPPORTED_EXTENSIONS ==
    {".jpg", ".jpeg", ".png", ".tif", ".tiff", ".bmp", ".dng", ".raw", ".nef", ".cr2", ".arw"}

Workers == {"w1"}
\* The processes that connect to the broker.
Clients == {"api"} \cup Workers
\* Two worker processes on the same queue.
TwoWorkers == {"w1", "w2"}
\* max_retries of RabbitMQClient.connect and of worker()
max_retries == ScaledThirty
\* The id of the job row the submission creates.
TaskId == 1
\* The id of another job, whose events pass through the same exchange.
OtherTaskId == 2
TaskIds == {TaskId, OtherTaskId}
\* The WebSocket objects of the connections clients open.
WebSockets == 1..MaxSockets

QUEUED == "queued"
PROCESSING == "processing"
COMPLETED == "completed"
FAILED == "failed"
AnalysisStatus == {QUEUED, PROCESSING, COMPLETED, FAILED}

(***************************************************************************)
(* Optional values: None is Null, a present value x is Some(x).            *)
(***************************************************************************)
Null == <<>>
Some(x) == <<x>>
Get(o) == o[1]

Min(a, b) == IF a < b THEN a ELSE b
Max(a, b) == IF a < b THEN b ELSE a

\* The ascending sequence of the elements of a finite set of integers.
RECURSIVE SortedSeq(_)
SortedSeq(S) ==
    IF S = {} THEN <<>>
    ELSE LET m == CHOOSE x \in S : \A y \in S : x <= y
         IN <<m>> \o SortedSeq(S \ {m})

\* s[from..to] (1-based, inclusive), empty when from > to.
Slice(s, from, to) == [k \in 1..Max(0, Min(to, Len(s)) - from + 1) |-> s[from + k - 1]]

(***************************************************************************)
(* Blob ids.  The blob service draws a fresh uuid4 per upload; the model   *)
(* names a blob by what was uploaded and by whom.                          *)
(***************************************************************************)
Blob(kind, by, n) == [kind |-> kind, by |-> by, n |-> n]
StagingBlob == Blob("staging", 0, 0)

VARIABLES
    tasks,      \* table analysis_tasks  (committed rows): id -> row
    images,     \* table analysis_images (committed rows): id -> row
    intake,     \* the POST /predict/batch request and its open session
    queue,      \* the durable work queue `analysis_tasks`
    wk,         \* per worker: position in worker()/process_task and locals
    lastUpdate, \* the latest event published to the fan-out exchange
    blobs,      \* ids of the blobs the files-service holds
    api,        \* the mutating requests served and the annotate request in flight
    deliveries, \* number of times the broker handed the message out
    connections,         \* task_ws_manager.connections: task id -> set of sockets
    history_connections, \* task_ws_manager.history_connections
    sockets,    \* per WebSocket: its endpoint and what the client received
    updates,    \* the events in the hub's queue on the fan-out exchange
    fanout,     \* the send_to_task call in progress in _updates_consumer
    amqp,       \* per process (the API, each worker): its connection to the broker
    archives    \* the entries of the results archives the files-service holds

\* The state of the job pipeline and the state of the Progress Hub.
jobvars == <<tasks, images, intake, queue, wk, lastUpdate, blobs, api, deliveries>>
hubvars == <<connections, history_connections, sockets, updates, fanout>>
envvars == <<amqp, archives>>
vars == <<jobvars, hubvars, envvars>>

(***************************************************************************)
(* Task Store (app/services/analysis_tasks.py).                            *)
(***************************************************************************)
\* create_task: a Queued row with the totals of the submission.
create_task(total_files, preview_limit) ==
    [status |-> QUEUED,
     total_files |-> total_files,
     processed_files |-> 0,
     failed_files |-> 0,
     defects_found |-> 0,
     preview_limit |-> preview_limit,
     message |-> Null,
     originals_archive_file_id |-> Null,
     results_archive_file_id |-> Null,
     completed_at |-> Null]

\* One new analysis_images row (add_images builds one per uploaded file).
NewImage(file_id, file_name) ==
    [file_id |-> file_id,
     file_name |-> file_name,
     status |-> QUEUED,
     result_file_id |-> Null,
     is_preview |-> FALSE,
     summary |-> Null,
     error_message |-> Null]

\* add_images: one Queued row per element of `files` (a sequence of
\* [file_id, file_name]), in order; ids[k] is the fresh id of the k-th row.
\* Ids grow with created_at, so the order of the ids is the creation order.
add_images(tbl, ids, files) ==
    [i \in (DOMAIN tbl) \cup {ids[k] : k \in 1..Len(files)} |->
        IF i \in DOMAIN tbl THEN tbl[i]
        ELSE LET k == CHOOSE j \in 1..Len(files) : ids[j] = i
             IN NewImage(files[k].file_id, files[k].file_name)]

\* update_task_progress: every argument is optional (Null = not passed);
\* a missing row is left missing (the function returns None).
update_task_progress(tbl, t, processed_files, failed_files, defects_found, status, message) ==
    IF t \notin DOMAIN tbl THEN tbl
    ELSE [tbl EXCEPT ![t] =
            [@ EXCEPT
               !.processed_files = IF processed_files # Null THEN Get(processed_files) ELSE @,
               !.failed_files = IF failed_files # Null THEN Get(failed_files) ELSE @,
               !.defects_found = IF defects_found # Null THEN Get(defects_found) ELSE @,
               !.status = IF status # Null THEN Get(status) ELSE @,
               !.completed_at = IF status # Null /\ Get(status) \in {COMPLETED, FAILED}
                                THEN Some("utcnow") ELSE @,
               !.message = IF message # Null THEN message ELSE @]]

\* update_image as it would be if it left result_file_id alone.
update_image_without_result(tbl, i, status, summary, is_preview, result_file_id, error_message) ==
    IF i \notin DOMAIN tbl THEN tbl
    ELSE [tbl EXCEPT ![i] =
            [@ EXCEPT
               !.status = IF status # Null THEN Get(status) ELSE @,
               !.summary = IF summary # Null THEN summary ELSE @,
               !.is_preview = IF is_preview # Null THEN Get(is_preview) ELSE @,
               !.error_message = IF error_message # Null THEN error_message ELSE @]]

\* update_image: every argument is optional; a missing row is left missing.
update_image(tbl, i, status, summary, is_preview, result_file_id, error_message) ==
    IF i \notin DOMAIN tbl THEN tbl
    ELSE [tbl EXCEPT ![i] =
            [@ EXCEPT
               !.status = IF status # Null THEN Get(status) ELSE @,
               !.summary = IF summary # Null THEN summary ELSE @,
               !.is_preview = IF is_preview # Null THEN Get(is_preview) ELSE @,
               !.result_file_id = IF result_file_id # Null THEN result_file_id ELSE @,
               !.error_message = IF error_message # Null THEN error_message ELSE @]]

\* set_task_archives: a falsy (None) id leaves the column as it is.
set_task_archives(tbl, t, originals_archive_id, results_archive_id) ==
    IF t \notin DOMAIN tbl THEN tbl
    ELSE [tbl EXCEPT ![t] =
            [@ EXCEPT
               !.originals_archive_file_id =
                   IF originals_archive_id # Null THEN originals_archive_id ELSE @,
               !.results_archive_file_id =
                   IF results_archive_id # Null THEN results_archive_id ELSE @]]

\* get_task_images: the page [skip, skip+limit) of the rows ordered by created_at
\* (the model has one job, so every row belongs to it).
get_task_images(tbl, skip, limit) ==
    LET ids == SortedSeq(DOMAIN tbl)
    IN Slice(ids, skip + 1, skip + limit)

\* Restriction of a table to the rows other than those in `gone`.
Without(tbl, gone) == [i \in (DOMAIN tbl) \ gone |-> tbl[i]]

\* The id of the row made for file f of the submission: by the intake
\* (delivery 0) or by the worker run of the given delivery of the message.
ImageId(delivery, f) == delivery * MaxFiles + f

(***************************************************************************)
(* Initial state: nothing submitted, the worker waits on the queue.        *)
(***************************************************************************)
\* The Intake API before its first mutating request for the job; budget is
\* the number of such requests it will serve.
IdleApi(budget) ==
    [pc |-> "idle", calls |-> 0, budget |-> budget, image_id |-> 0,
     summary |-> Null, boxes |-> <<>>,
     repeats |-> FALSE,          \* history: the request re-issues the last one
     file_ids |-> {},            \* file_ids_to_delete of the last delete request
     deletes |-> <<>>,           \* the delete_image requests that read their row
     reported |-> <<>>]          \* history: what delete_image calls handed back

\* A process before its first attempt to connect, and one that runs with
\* its connection, channel, queue and exchange set up.
Connecting == [pc |-> "connecting", attempt |-> 0]
Connected == [pc |-> "connected", attempt |-> 1]

IdleWorker ==
    [pc |-> "idle",
     msg |-> Null,               \* the unacknowledged message
     outcome |-> "none",         \* how the previous process_task ended
     delivery |-> 0,
     preview_limit |-> 0,
     archive_id |-> Null,        \* task.originals_archive_file_id as loaded
     preview_images |-> <<>>,
     archive_images |-> <<>>,
     total_files |-> 0,
     processed |-> 0,
     failed |-> 0,
     defects_found |-> 0,
     results_zip |-> <<>>,       \* the entries written to the results archive
     preview_queue_defect |-> <<>>,
     preview_queue_regular |-> <<>>,
     pass |-> "none",            \* "preview" or "bulk" image loop
     pos |-> 0,                  \* index in the loop being run
     batch_start |-> 0,
     new_images |-> <<>>,
     previews_to_use |-> <<>>]

\* A WebSocket nobody has opened yet.  kind and task_id are those of the
\* endpoint it is opened on; state is "new", "open", "broken" (a send to it
\* raised) or "closed" (its endpoint has ended); received holds the numbers
\* of the events the client got.
NewSocket == [state |-> "new", kind |-> "none", task_id |-> 0, received |-> {}]

\* No send_to_task call in progress.  `start` holds the sockets that were
\* registered for the event when the call began.
IdleFanout ==
    [pc |-> "idle", data |-> Null, sending |-> 0, used |-> 0,
     visited |-> {}, changed |-> FALSE, disconnected |-> {}, start |-> {}]

\* The uploaded files a submission is made of, as far as validation looks
\* at them: the suffix of the file name and the size.  A small image, an
\* image as large as the whole allowance, and three small files that are
\* not images.
Uploads ==
    {[suffix |-> ".jpg", size |-> 1], [suffix |-> ".PNG", size |-> MAX_BATCH_SIZE_BYTES]}
    \cup [suffix : {".gif", ".zip", ".TAR"}, size : {1}]

\* The submissions of k files.
RECURSIVE FileLists(_)
FileLists(k) ==
    IF k = 0 THEN {<<>>}
    ELSE {Append(files, upload) : files \in FileLists(k - 1), upload \in Uploads}

\* What a client can send: from no file to one file more than allowed.
Submissions == UNION {FileLists(k) : k \in 0..(MAX_BATCH_FILES + 1)}

\* A submission of n image files of the smallest size.
Photos(n) == [k \in 1..n |-> [suffix |-> ".jpg", size |-> 1]]

\* The request of POST /predict/batch: files is the submission, n its
\* length, error the HTTPException the validation raised, tasks and images
\* the rows in the session of the request.
IdleIntake ==
    [pc |-> "idle", files |-> <<>>, n |-> 0, preview_limit |-> 0, error |-> Null,
     tasks |-> <<>>, images |-> <<>>]

Init ==
    /\ tasks = <<>>
    /\ images = <<>>
    /\ intake = IdleIntake
    /\ queue = <<>>
    /\ wk = [w \in Workers |-> IdleWorker]
    /\ lastUpdate = Null
    /\ blobs = {}
    /\ api = IdleApi(MaxApiCalls)
    /\ deliveries = 0
    /\ connections = [t \in TaskIds |-> {}]
    /\ history_connections = {}
    /\ sockets = [ws \in WebSockets |-> NewSocket]
    /\ updates = [pending |-> <<>>, published |-> 0]
    /\ fanout = IdleFanout
    /\ amqp = [c \in Clients |-> Connected]
    /\ archives = <<>>

(***************************************************************************)
(* Broker connection: RabbitMQClient.connect (app/services/queue.py),      *)
(* called by on_startup of the API (app/main.py), and the loop at the      *)
(* head of worker() (app/workers/analysis_worker.py).                      *)
(***************************************************************************)
\* What follows a failed attempt as it would be if the loop never gave up.
AfterFailure_never_raising(attempt) == "connecting"

\* `if attempt == max_retries: raise`, else sleep and try again.
AfterFailure(attempt) == IF attempt = max_retries THEN "raised" ELSE "connecting"

\* One pass of `for attempt in range(1, max_retries + 1)`: connect_robust
\* (and, in the API, channel() and set_qos) succeeds, which leaves the
\* loop, or raises.
ConnectAttempt(c, ok) ==
    /\ amqp[c].pc = "connecting"
    /\ LET attempt == amqp[c].attempt + 1
       IN amqp' = [amqp EXCEPT ![c] = [pc |-> IF ok THEN "declaring" ELSE AfterFailure(attempt),
                                       attempt |-> attempt]]
    /\ UNCHANGED <<jobvars, hubvars, archives>>

\* After the loop: the declaration of the queue and of the exchange (in
\* the worker also channel() and set_qos).  An exception here is not
\* caught: the startup of the API fails, worker() ends.
ConnectDeclare(c, ok) ==
    /\ amqp[c].pc = "declaring"
    /\ amqp' = [amqp EXCEPT ![c].pc = IF ok THEN "connected" ELSE "declare_raised"]
    /\ UNCHANGED <<jobvars, hubvars, archives>>

ConnectNext ==
    \/ \E c \in Clients, ok \in BOOLEAN : ConnectAttempt(c, ok)
    \/ \E c \in Clients, ok \in BOOLEAN : ConnectDeclare(c, ok)

(***************************************************************************)
(* Intake API: POST /predict/batch (create_batch_task).                    *)
(***************************************************************************)
\* Path(upload.filename).suffix.lower(), for the suffixes of Uploads.
Lower(suffix) ==
    CASE suffix = ".PNG" -> ".png"
      [] suffix = ".TAR" -> ".tar"
      [] OTHER -> suffix

\* total_bytes: the sum of the sizes of the files.
RECURSIVE TotalBytes(_)
TotalBytes(files) ==
    IF files = <<>> THEN 0 ELSE Head(files).size + TotalBytes(Tail(files))

\* The validation as it would be without the limit on the total size.
BatchError_ignoring_size(files) ==
    LET bad == {k \in 1..Len(files) : Lower(files[k].suffix) \notin SUPPORTED_EXTENSIONS}
        first == CHOOSE k \in bad : \A j \in bad : k <= j
    IN IF Len(files) = 0 THEN Some("no files")
       ELSE IF Len(files) > MAX_BATCH_FILES THEN Some("too many files")
       ELSE IF bad # {}
            THEN IF Lower(files[first].suffix) \in {".zip", ".tar"}
                 THEN Some("archives are not supported")
                 ELSE Some("format is not supported")
       ELSE Null

\* The validation of create_batch_task, in the order of the code: no file,
\* too many files, per file in submission order an archive or an
\* unsupported extension, then the total size.  Null when the submission
\* passes, else the detail of the HTTPException.
BatchError(files) ==
    LET bad == {k \in 1..Len(files) : Lower(files[k].suffix) \notin SUPPORTED_EXTENSIONS}
        first == CHOOSE k \in bad : \A j \in bad : k <= j
    IN IF Len(files) = 0 THEN Some("no files")
       ELSE IF Len(files) > MAX_BATCH_FILES THEN Some("too many files")
       ELSE IF bad # {}
            THEN IF Lower(files[first].suffix) \in {".zip", ".tar"}
                 THEN Some("archives are not supported")
                 ELSE Some("format is not supported")
       ELSE IF TotalBytes(files) > MAX_BATCH_SIZE_BYTES THEN Some("too large")
       ELSE Null

\* The partition of a submission of n files: the files with
\* idx < preview_limit_upload are the preview files, the others go to the
\* staging archive (files are numbered from 1).
PreviewFiles(n, preview_limit_upload) == 1..Min(n, preview_limit_upload)
ArchiveFiles(n, preview_limit_upload) == (preview_limit_upload + 1)..n

\* The validation raised HTTPException(status_code=400): the request ends
\* before create_task, before any upload and before publish_task.
IntakeReject(files) ==
    /\ intake.pc = "idle"
    /\ amqp["api"].pc = "connected"
    /\ BatchError(files) # Null
    /\ intake' = [IdleIntake EXCEPT
                     !.pc = "rejected", !.files = files, !.n = Len(files),
                     !.error = Some([status_code |-> 400, detail |-> Get(BatchError(files))])]
    /\ UNCHANGED <<hubvars, envvars, tasks, images, queue, wk, lastUpdate, blobs, api, deliveries>>

\* The submission passed validation.  The handler creates the job row and,
\* after the uploads, the preview rows in its session (flush, no commit).
\* `uploaded` is the set of preview files the batch upload stored.
IntakeSubmit(files, preview_limit, uploaded) ==
    /\ intake.pc = "idle"
    /\ amqp["api"].pc = "connected"
    /\ BatchError(files) = Null
    /\ uploaded \subseteq PreviewFiles(Len(files), UPLOAD_PREVIEW_LIMIT)
    /\ LET n == Len(files)
           up == SortedSeq(uploaded)
           stored == [k \in 1..Len(up) |->
                         [file_id |-> Blob("orig", 0, up[k]), file_name |-> up[k]]]
           row == [create_task(n, Min(preview_limit, PREVIEW_LIMIT))
                      EXCEPT !.originals_archive_file_id = Some(StagingBlob)]
       IN /\ intake' = [pc |-> "flushed", files |-> files, n |-> n,
                        preview_limit |-> preview_limit, error |-> Null,
                        tasks |-> (TaskId :> row),
                        images |-> add_images(<<>>, [k \in 1..Len(up) |-> ImageId(0, up[k])], stored)]
          /\ blobs' = blobs \cup {Blob("orig", 0, f) : f \in uploaded} \cup {StagingBlob}
    /\ UNCHANGED <<hubvars, envvars, tasks, images, queue, wk, lastUpdate, api, deliveries>>

\* An upload of the handler raised: the request ends with 500, the session
\* is rolled back and nothing is published.
IntakeUploadFails(files) ==
    /\ intake.pc = "idle"
    /\ amqp["api"].pc = "connected"
    /\ BatchError(files) = Null
    /\ intake' = [IdleIntake EXCEPT !.pc = "rolledback", !.files = files, !.n = Len(files)]
    /\ UNCHANGED <<hubvars, envvars, tasks, images, queue, wk, lastUpdate, blobs, api, deliveries>>

\* A request of n image files that passed validation, served by an API
\* whose settings PREVIEW_LIMIT and UPLOAD_PREVIEW_LIMIT both have the
\* value limit (both default to the same value and are read from the
\* environment).
ValidRequest(limit, n, preview_limit) ==
    [pc |-> "validated", files |-> Photos(n), n |-> n, preview_limit |-> preview_limit,
     error |-> Null, tasks |-> <<>>, images |-> <<>>,
     settings |-> [PREVIEW_LIMIT |-> limit, UPLOAD_PREVIEW_LIMIT |-> limit],
     archive_files |-> <<>>]

\* create_batch_task from create_task to add_images for such a request:
\* the job row, the partition, the batch upload of the preview files (which
\* stored `uploaded`), the staging archive of the other files, the rows.
IntakePartition(uploaded) ==
    /\ intake.pc = "validated"
    /\ amqp["api"].pc = "connected"
    /\ uploaded \subseteq PreviewFiles(intake.n, intake.settings.UPLOAD_PREVIEW_LIMIT)
    /\ LET up == SortedSeq(uploaded)
           stored == [k \in 1..Len(up) |->
                         [file_id |-> Blob("orig", 0, up[k]), file_name |-> up[k]]]
           row == [create_task(intake.n, Min(intake.preview_limit, intake.settings.PREVIEW_LIMIT))
                      EXCEPT !.originals_archive_file_id = Some(StagingBlob)]
       IN /\ intake' = [intake EXCEPT
                           !.pc = "flushed",
                           !.tasks = (TaskId :> row),
                           !.images = add_images(<<>>, [k \in 1..Len(up) |-> ImageId(0, up[k])],
                                                 stored),
                           !.archive_files =
                               SortedSeq(ArchiveFiles(intake.n,
                                                      intake.settings.UPLOAD_PREVIEW_LIMIT))]
          /\ blobs' = blobs \cup {Blob("orig", 0, f) : f \in uploaded} \cup {StagingBlob}
    /\ UNCHANGED <<hubvars, envvars, tasks, images, queue, wk, lastUpdate, api, deliveries>>

\* rabbitmq_client.publish_task: the work message goes to the queue while
\* the session of the request is still open.  When the publish raises the
\* request fails and the session is rolled back.
IntakePublish(ok) ==
    /\ intake.pc = "flushed"
    /\ IF ok
       THEN /\ queue' = Append(queue, [task_id |-> TaskId, preview_limit |-> intake.preview_limit])
            /\ intake' = [intake EXCEPT !.pc = "published"]
       ELSE /\ intake' = [intake EXCEPT !.pc = "rolledback"]
            /\ UNCHANGED queue
    /\ UNCHANGED <<hubvars, envvars, tasks, images, wk, lastUpdate, blobs, api, deliveries>>

\* get_db_session resumes after the handler returned: commit, or rollback
\* when the commit raises.
IntakeCommit(ok) ==
    /\ intake.pc = "published"
    /\ IF ok
       THEN /\ tasks' = intake.tasks
            /\ images' = intake.images
            /\ intake' = [intake EXCEPT !.pc = "committed"]
       ELSE /\ intake' = [intake EXCEPT !.pc = "rolledback"]
            /\ UNCHANGED <<tasks, images>>
    /\ UNCHANGED <<hubvars, envvars, queue, wk, lastUpdate, blobs, api, deliveries>>

(***************************************************************************)
(* Detector and events.                                                    *)
(***************************************************************************)
\* The confidence of a manual entry, 1.0, in hundredths.
FullConfidence == 100

\* What yolo_service.predict_bytes can answer: no object, or one defect.
\* A detector entry has no is_manual key; confidences are in hundredths and
\* the Cyrillic values of defect_summary.type are transliterated
\* ("povrezhden" for the detector's damaged class, "Povrezhdenie" and
\* "Norma" for the two values the Intake API writes).
DetectorResults ==
    { [detections |-> <<>>, total_objects |-> 0, defects_count |-> 0,
       has_defects |-> FALSE],
      [detections |-> <<[class |-> "damaged_insulator", confidence |-> 87,
                         bbox |-> <<2, 3, 9, 8>>,
                         defect_summary |-> [type |-> "povrezhden", severity |-> "high"]]>>,
       total_objects |-> 1, defects_count |-> 1, has_defects |-> TRUE] }

\* The payload of publish_update (AnalysisTaskProgress).
Progress(t, status, processed, total, failed, defects, message) ==
    [task_id |-> t, status |-> status, processed_files |-> processed,
     total_files |-> total, failed_files |-> failed, defects_found |-> defects,
     message |-> message]

(***************************************************************************)
(* Worker: control flow of process_task over the local state s.            *)
(***************************************************************************)
\* The entries of the staging archive of a submission of n files: the files
\* after the first UPLOAD_PREVIEW_LIMIT ones, in submission order.
ArchiveEntries(n) == [k \in 1..Max(0, n - UPLOAD_PREVIEW_LIMIT) |-> UPLOAD_PREVIEW_LIMIT + k]

\* len(current_batch) of the chunk that starts at s.batch_start.
ChunkLen(s) == Min(s.batch_start + BATCH_SIZE, Len(s.archive_images)) - s.batch_start

\* previews_to_use: the defect candidates, filled up with regular ones.
PreviewsToUse(s) ==
    IF Len(s.preview_queue_defect) < s.preview_limit
    THEN s.preview_queue_defect \o
         Slice(s.preview_queue_regular, 1, s.preview_limit - Len(s.preview_queue_defect))
    ELSE s.preview_queue_defect

\* After the image loops: promotion of the previews, then the cleanup.
StartPromote(s) ==
    LET use == PreviewsToUse(s)
    IN [s EXCEPT !.pass = "none", !.pos = 1, !.previews_to_use = use,
                 !.pc = IF Len(use) > 0 THEN "promote"
                        ELSE IF s.archive_id # Null THEN "cleanup" ELSE "archive"]

\* The next iteration of `for batch_start in range(0, len(archive_images), BATCH_SIZE)`.
NextChunk(s) ==
    LET b == s.batch_start + BATCH_SIZE
    IN IF b < Len(s.archive_images)
       THEN [s EXCEPT !.pc = "chunk", !.batch_start = b, !.pos = 0, !.new_images = <<>>]
       ELSE StartPromote(s)

\* The first iteration of the bulk loop.
StartBulk(s) ==
    IF Len(s.archive_images) > 0
    THEN [s EXCEPT !.pc = "chunk", !.pass = "bulk", !.batch_start = 0, !.pos = 0,
                   !.new_images = <<>>]
    ELSE StartPromote(s)

\* Entry idx (0-based) of the current chunk: entries without a row are
\* skipped by `continue`, which also skips the progress write.
EnterBulkEntry(s, idx) ==
    IF idx < Min(ChunkLen(s), Len(s.new_images))
    THEN [s EXCEPT !.pc = "img_start", !.pos = idx]
    ELSE NextChunk(s)

\* `except Exception as batch_exc`: the whole chunk is counted as failed.
ChunkExcept(s) == NextChunk([s EXCEPT !.failed = @ + ChunkLen(s)])

\* The first iteration of `for image in preview_images`.
StartPreviewPass(s) ==
    IF Len(s.preview_images) > 0
    THEN [s EXCEPT !.pc = "img_start", !.pass = "preview", !.pos = 1]
    ELSE StartBulk(s)

\* The iteration after the one at s.pos.
Advance(s) ==
    IF s.pass = "preview"
    THEN IF s.pos < Len(s.preview_images)
         THEN [s EXCEPT !.pc = "img_start", !.pos = @ + 1]
         ELSE StartBulk(s)
    ELSE EnterBulkEntry(s, s.pos + 1)

\* `if processed % 100 == 0 or failed % 100 == 0`
CadenceDue(processed, failed) ==
    processed % PROGRESS_EVERY = 0 \/ failed % PROGRESS_EVERY = 0

\* The end of one iteration of an image loop: the progress write when due.
AfterImage(s) ==
    IF CadenceDue(s.processed, s.failed) THEN [s EXCEPT !.pc = "cadence"] ELSE Advance(s)

\* The id of the row of the image at s.pos.
CurrentImage(s) ==
    IF s.pass = "preview" THEN s.preview_images[s.pos].id ELSE s.new_images[s.pos + 1]

\* The file name of the image at s.pos: image["file_name"] in the preview
\* loop, archive_file["name"] in the bulk loop.
CurrentFile(s) ==
    IF s.pass = "preview" THEN s.preview_images[s.pos].file_name
    ELSE s.archive_images[s.batch_start + s.pos + 1]

\* The two folders of the results archive (transliterated).
DamagedFolder == "Povrezhdennye"
IntactFolder == "Nepovrezhdennye"

\* f"{Path(safe_name).stem}_annotated.jpg": file k of a submission stands
\* for a name with stem k, so the files of a submission have distinct stems.
AnnotatedName(file_name) == <<file_name, "_annotated.jpg">>

\* zip_path = f"results/{folder_name}/{annotated_name}"
ZipPath(r, file_name) ==
    [folder |-> IF r.has_defects THEN DamagedFolder ELSE IntactFolder,
     name |-> AnnotatedName(file_name)]

\* final_status as it would be if the failed count were ignored.
FinalStatus_ignoring_failed(failed) == COMPLETED

\* final_status = COMPLETED if failed == 0 else FAILED
FinalStatus(failed) == IF failed = 0 THEN COMPLETED ELSE FAILED

\* The message written with the final status.
FinalMessage(status) == IF status = COMPLETED THEN "done" ELSE "task completed with errors"

\* The candidate appended to a preview queue when it is not full.
Enqueue(q, limit, cand) == IF Len(q) < limit THEN Append(q, cand) ELSE q

\* The local effects of a successful detection with result r: the entry
\* written to the results archive, the counters
\* and, when `queued`, the preview candidate.
Detected(s, r, queued) ==
    LET cand == [image_id |-> CurrentImage(s), summary |-> r]
    IN [s EXCEPT
          !.results_zip = Append(@, ZipPath(r, CurrentFile(s))),
          !.defects_found = IF r.has_defects THEN @ + r.defects_count ELSE @,
          !.preview_queue_defect =
              IF queued /\ r.has_defects THEN Enqueue(@, s.preview_limit, cand) ELSE @,
          !.preview_queue_regular =
              IF queued /\ ~r.has_defects THEN Enqueue(@, s.preview_limit, cand) ELSE @]

(***************************************************************************)
(* Worker: worker() and process_task.                                      *)
(***************************************************************************)
\* process_task ended: by return or by an exception that worker() logs.
\* Either way `async with message.process()` exits normally, and the
\* acknowledgement of the message is what is left to do.
Ended(w, how) ==
    wk' = [wk EXCEPT ![w] = [IdleWorker EXCEPT !.pc = "ack", !.msg = wk[w].msg,
                                               !.outcome = how]]

\* The exit of `async with message.process()`: the message is acknowledged
\* and the worker waits for the next one.
Ack(w) ==
    /\ wk[w].pc = "ack"
    /\ wk' = [wk EXCEPT ![w] = [IdleWorker EXCEPT !.outcome = wk[w].outcome]]
    /\ UNCHANGED <<hubvars, envvars, tasks, images, intake, queue, lastUpdate, blobs, api, deliveries>>

\* An exception at state s of process_task: inside the try of a chunk it is
\* caught and the chunk counted as failed, elsewhere it ends process_task.
RaiseFrom(w, s, kind) ==
    IF s.pass = "bulk"
    THEN wk' = [wk EXCEPT ![w] = ChunkExcept(s)]
    ELSE Ended(w, kind)

\* `async for message in queue_iter`: the broker hands the message out.
Dequeue(w) ==
    /\ wk[w].pc = "idle"
    /\ amqp[w].pc = "connected"
    /\ queue # <<>>
    /\ LET m == Head(queue)
       IN wk' = [wk EXCEPT ![w] =
                   [IdleWorker EXCEPT
                      !.pc = "start",
                      !.msg = Some(m),
                      !.delivery = deliveries + 1,
                      !.preview_limit = Min(m.preview_limit, PREVIEW_LIMIT)]]
    /\ queue' = Tail(queue)
    /\ deliveries' = deliveries + 1
    /\ UNCHANGED <<hubvars, envvars, tasks, images, intake, lastUpdate, blobs, api>>

\* The worker is lost before it acknowledged (process killed, connection
\* dropped): the broker puts the message back.
WorkerLost(w) ==
    /\ wk[w].pc # "idle"
    /\ deliveries <= MaxRedeliveries
    /\ queue' = <<Get(wk[w].msg)>> \o queue
    /\ wk' = [wk EXCEPT ![w] = [IdleWorker EXCEPT !.outcome = "lost"]]
    /\ UNCHANGED <<hubvars, envvars, tasks, images, intake, lastUpdate, blobs, api, deliveries>>

\* The connection or the channel of worker w is lost while process_task
\* runs (network, missed heartbeats, the broker's timeout for a delivery
\* that stays unacknowledged): the broker puts the message back, and the
\* robust connection is restored.  process_task never looks at the
\* connection and goes on.
ConnectionLost(w) ==
    /\ wk[w].pc \notin {"idle", "ack"}
    /\ deliveries <= MaxRedeliveries
    /\ \A k \in 1..Len(queue) : queue[k] # Get(wk[w].msg)
    /\ queue' = <<Get(wk[w].msg)>> \o queue
    /\ UNCHANGED <<hubvars, envvars, tasks, images, intake, wk, lastUpdate, blobs, api, deliveries>>

\* update_task_status(task_id, status=PROCESSING, message=...)
Start(w, ok) ==
    /\ wk[w].pc = "start"
    /\ IF ok
       THEN /\ tasks' = update_task_progress(tasks, Get(wk[w].msg).task_id, Null, Null, Null,
                                             Some(PROCESSING), Some("processing started"))
            /\ wk' = [wk EXCEPT ![w].pc = "load"]
       ELSE /\ Ended(w, "store")
            /\ UNCHANGED tasks
    /\ UNCHANGED <<hubvars, envvars, images, intake, queue, lastUpdate, blobs, api, deliveries>>

\* get_task, fetch_task_images and the download of the staging archive.
\* out: "ok", "store" (a read raised) or "blob" (the download raised).
Load(w, out) ==
    /\ wk[w].pc = "load"
    /\ LET t == Get(wk[w].msg).task_id
           s == wk[w]
       IN IF out = "store" THEN Ended(w, "store")
          ELSE IF t \notin DOMAIN tasks THEN out = "ok" /\ Ended(w, "not_found")
          ELSE LET arch == tasks[t].originals_archive_file_id
                   page == get_task_images(images, 0, FETCH_LIMIT)
                   prev == [k \in 1..Len(page) |->
                              [id |-> page[k], file_id |-> images[page[k]].file_id,
                               file_name |-> images[page[k]].file_name]]
                   entries == IF arch # Null THEN ArchiveEntries(intake.n) ELSE <<>>
                   s1 == [s EXCEPT !.archive_id = arch,
                                   !.preview_images = prev,
                                   !.archive_images = entries,
                                   !.total_files = Len(prev) + Len(entries)]
               IN IF arch # Null /\ (out = "blob" \/ Get(arch) \notin blobs)
                  THEN Ended(w, "blob")
                  ELSE /\ out = "ok"
                       /\ wk' = [wk EXCEPT ![w] =
                                   IF s1.total_files = 0 THEN [s1 EXCEPT !.pc = "nofiles"]
                                   ELSE StartPreviewPass(s1)]
    /\ UNCHANGED <<hubvars, envvars, tasks, images, intake, queue, lastUpdate, blobs, api, deliveries>>

\* total_files == 0: update_task_status(status=FAILED, ...)
NoFiles(w, ok) ==
    /\ wk[w].pc = "nofiles"
    /\ IF ok
       THEN /\ tasks' = update_task_progress(tasks, Get(wk[w].msg).task_id, Null, Null, Null,
                                             Some(FAILED), Some("no files to process"))
            /\ wk' = [wk EXCEPT ![w].pc = "nofiles_publish"]
       ELSE /\ Ended(w, "store")
            /\ UNCHANGED tasks
    /\ UNCHANGED <<hubvars, envvars, images, intake, queue, lastUpdate, blobs, api, deliveries>>

\* total_files == 0: publish_update(FAILED, all counters 0) and return.
NoFilesPublish(w, ok) ==
    /\ wk[w].pc = "nofiles_publish"
    /\ IF ok
       THEN /\ lastUpdate' = Some(Progress(Get(wk[w].msg).task_id, FAILED, 0, 0, 0, 0, "no files"))
            /\ Ended(w, "no_files")
       ELSE /\ Ended(w, "queue")
            /\ UNCHANGED lastUpdate
    /\ UNCHANGED <<hubvars, envvars, tasks, images, intake, queue, blobs, api, deliveries>>

\* The except clause of an image: failed += 1, update_image(status=FAILED,
\* error_message=...), then the end of the iteration.  When that write raises
\* too (marked = FALSE) the exception leaves the loop body.
ImageFailed(w, s, marked) ==
    LET s1 == [s EXCEPT !.failed = @ + 1]
    IN IF marked
       THEN /\ images' = update_image(images, CurrentImage(s), Some(FAILED), Null, Null, Null,
                                      Some("error"))
            /\ wk' = [wk EXCEPT ![w] = AfterImage(s1)]
       ELSE /\ RaiseFrom(w, s1, "store")
            /\ UNCHANGED images

\* update_image(image_id, status=PROCESSING) at the top of an iteration.
\* out: "ok", "failed" (the write raised, the row was marked Failed) or
\* "raised" (marking it Failed raised as well).
ImgStart(w, out) ==
    /\ wk[w].pc = "img_start"
    /\ CASE out = "ok" ->
              /\ images' = update_image(images, CurrentImage(wk[w]), Some(PROCESSING), Null, Null,
                                        Null, Null)
              /\ wk' = [wk EXCEPT ![w].pc = "img_run"]
         [] out = "failed" -> ImageFailed(w, wk[w], TRUE)
         [] out = "raised" -> ImageFailed(w, wk[w], FALSE)
    /\ UNCHANGED <<hubvars, envvars, tasks, intake, queue, lastUpdate, blobs, api, deliveries>>

\* Download, yolo_service.predict_bytes, draw_annotations, the entry of the
\* results archive, the counters and update_image(status=COMPLETED,
\* summary=result).  r is the detector's answer.  out:
\*   "ok"            everything succeeded,
\*   "detect_failed" a step before the counters raised, row marked Failed,
\*   "detect_raised" the same and marking the row Failed raised,
\*   "write_failed"  the COMPLETED write raised, row marked Failed,
\*   "write_raised"  the same and marking the row Failed raised.
\* The preview loop appends the preview candidate before the COMPLETED
\* write, the bulk loop after it.
ImgRun(w, r, out) ==
    /\ wk[w].pc = "img_run"
    /\ LET s == wk[w]
       IN CASE out = "ok" ->
                 /\ images' = update_image(images, CurrentImage(s), Some(COMPLETED), Some(r),
                                           Null, Null, Null)
                 /\ wk' = [wk EXCEPT ![w] =
                             AfterImage([Detected(s, r, TRUE) EXCEPT !.processed = @ + 1])]
            [] out = "detect_failed" -> ImageFailed(w, s, TRUE)
            [] out = "detect_raised" -> ImageFailed(w, s, FALSE)
            [] out = "write_failed" -> ImageFailed(w, Detected(s, r, s.pass = "preview"), TRUE)
            [] out = "write_raised" -> ImageFailed(w, Detected(s, r, s.pass = "preview"), FALSE)
    /\ UNCHANGED <<hubvars, envvars, tasks, intake, queue, lastUpdate, blobs, api, deliveries>>

\* The progress write of the cadence: update_task_status(processed_files,
\* failed_files, defects_found) and publish_update(status=PROCESSING).
\* out: "ok", "store" (the write raised) or "queue" (the publish raised).
Cadence(w, out) ==
    /\ wk[w].pc = "cadence"
    /\ LET s == wk[w]
           t == Get(s.msg).task_id
       IN /\ tasks' = IF out = "store" THEN tasks
                      ELSE update_task_progress(tasks, t, Some(s.processed), Some(s.failed),
                                                Some(s.defects_found), Null, Null)
          /\ lastUpdate' = IF out = "ok"
                           THEN Some(Progress(t, PROCESSING, s.processed, s.total_files,
                                              s.failed, s.defects_found, "processed"))
                           ELSE lastUpdate
          /\ IF out = "ok" THEN wk' = [wk EXCEPT ![w] = Advance(s)]
             ELSE RaiseFrom(w, s, out)
    /\ UNCHANGED <<hubvars, envvars, images, intake, queue, blobs, api, deliveries>>

\* The head of a chunk: files_service.batch_upload_bytes and add_images.
\* `uploaded` are the positions (1-based) of the chunk the blob service
\* stored.  out: "ok", "blob" (the upload raised) or "store" (add_images
\* raised after the upload, as it does when the job row is gone: task_id
\* is a foreign key to analysis_tasks).
Chunk(w, uploaded, out) ==
    /\ wk[w].pc = "chunk"
    /\ LET s == wk[w]
           up == SortedSeq(uploaded)
           file(k) == s.archive_images[s.batch_start + up[k]]
           files == [k \in 1..Len(up) |->
                       [file_id |-> Blob("orig", s.delivery, file(k)), file_name |-> file(k)]]
           ids == [k \in 1..Len(up) |-> ImageId(s.delivery, file(k))]
       IN /\ uploaded \subseteq 1..ChunkLen(s)
          /\ out = "blob" => uploaded = {}
          /\ out = "ok" => Get(s.msg).task_id \in DOMAIN tasks
          /\ blobs' = blobs \cup {files[k].file_id : k \in 1..Len(up)}
          /\ IF out = "ok"
             THEN /\ images' = add_images(images, ids, files)
                  /\ wk' = [wk EXCEPT ![w] = EnterBulkEntry([s EXCEPT !.new_images = ids], 0)]
             ELSE /\ RaiseFrom(w, s, out)
                  /\ UNCHANGED images
    /\ UNCHANGED <<hubvars, envvars, tasks, intake, queue, lastUpdate, api, deliveries>>

\* One iteration of `for preview in previews_to_use`: upload_bytes of the
\* annotated image and update_image(is_preview=True, result_file_id, summary).
\* out: "ok", "blob" (the upload raised) or "store" (the write raised).
Promote(w, out) ==
    /\ wk[w].pc = "promote"
    /\ LET s == wk[w]
           preview == s.previews_to_use[s.pos]
           upload == Blob("preview", s.delivery, preview.image_id)
       IN /\ blobs' = IF out = "blob" THEN blobs ELSE blobs \cup {upload}
          /\ IF out = "ok"
             THEN /\ images' = update_image(images, preview.image_id, Null,
                                            Some(preview.summary), Some(TRUE), Some(upload), Null)
                  /\ wk' = [wk EXCEPT ![w] =
                              IF s.pos < Len(s.previews_to_use) THEN [s EXCEPT !.pos = @ + 1]
                              ELSE [s EXCEPT !.pc = IF s.archive_id # Null THEN "cleanup"
                                                    ELSE "archive"]]
             ELSE /\ Ended(w, out)
                  /\ UNCHANGED images
    /\ UNCHANGED <<hubvars, envvars, tasks, intake, queue, lastUpdate, api, deliveries>>

\* files_service.delete_file(task.originals_archive_file_id); a failure is
\* logged and ignored.
Cleanup(w, ok) ==
    /\ wk[w].pc = "cleanup"
    /\ blobs' = IF ok THEN blobs \ {Get(wk[w].archive_id)} ELSE blobs
    /\ wk' = [wk EXCEPT ![w].pc = "archive"]
    /\ UNCHANGED <<hubvars, envvars, tasks, images, intake, queue, lastUpdate, api, deliveries>>

\* upload_bytes of the results archive and set_task_archives(
\* originals_archive_id=None, results_archive_id=...).
\* out: "ok", "blob" (the upload raised) or "store" (the write raised).
Archive(w, out) ==
    /\ wk[w].pc = "archive"
    /\ LET s == wk[w]
           upload == Blob("results", s.delivery, 0)
       IN /\ blobs' = IF out = "blob" THEN blobs ELSE blobs \cup {upload}
          /\ archives' = IF out = "blob" THEN archives ELSE (upload :> s.results_zip) @@ archives
          /\ IF out = "ok"
             THEN /\ tasks' = set_task_archives(tasks, Get(s.msg).task_id, Null, Some(upload))
                  /\ wk' = [wk EXCEPT ![w].pc = "finalize"]
             ELSE /\ Ended(w, out)
                  /\ UNCHANGED tasks
    /\ UNCHANGED <<hubvars, amqp, images, intake, queue, lastUpdate, api, deliveries>>

\* update_task_status(status=final_status, processed_files, failed_files,
\* defects_found, message).
Finalize(w, ok) ==
    /\ wk[w].pc = "finalize"
    /\ LET s == wk[w]
           final_status == FinalStatus(s.failed)
       IN IF ok
          THEN /\ tasks' = update_task_progress(tasks, Get(s.msg).task_id, Some(s.processed),
                                                Some(s.failed), Some(s.defects_found),
                                                Some(final_status),
                                                Some(FinalMessage(final_status)))
               /\ wk' = [wk EXCEPT ![w].pc = "publish_final"]
          ELSE /\ Ended(w, "store")
               /\ UNCHANGED tasks
    /\ UNCHANGED <<hubvars, envvars, images, intake, queue, lastUpdate, blobs, api, deliveries>>

\* publish_update(status=final_status, ...); process_task returns.
PublishFinal(w, ok) ==
    /\ wk[w].pc = "publish_final"
    /\ LET s == wk[w]
       IN IF ok
          THEN /\ lastUpdate' = Some(Progress(Get(s.msg).task_id, FinalStatus(s.failed),
                                              s.processed, s.total_files, s.failed,
                                              s.defects_found, "task finished"))
               /\ Ended(w, "finished")
          ELSE /\ Ended(w, "queue")
               /\ UNCHANGED lastUpdate
    /\ UNCHANGED <<hubvars, envvars, tasks, images, intake, queue, blobs, api, deliveries>>

(***************************************************************************)
(* Intake API: the mutators of an existing job (app/api/analysis.py).      *)
(***************************************************************************)
\* delete_image of the Task Store: the row goes, total_files drops by one
\* and processed_files drops by one when the row was Completed.
delete_image_counters(task, image_status) ==
    [task EXCEPT
       !.total_files = Max(0, @ - 1),
       !.processed_files = IF image_status = COMPLETED THEN Max(0, @ - 1) ELSE @]

\* The blob ids delete_image reports for one row.
ImageFileIds(row) ==
    {row.file_id} \cup (IF row.result_file_id # Null THEN {Get(row.result_file_id)} ELSE {})

\* The blob ids as they would be if the results archive were left out.
TaskFileIds_without_archive(task, imgs) ==
    UNION {ImageFileIds(imgs[i]) : i \in DOMAIN imgs}

\* The blob ids delete_task reports: per image the original and the result,
\* and the results archive of the job.
TaskFileIds(task, imgs) ==
    UNION {ImageFileIds(imgs[i]) : i \in DOMAIN imgs} \cup
    (IF task.results_archive_file_id # Null THEN {Get(task.results_archive_file_id)} ELSE {})

\* DELETE /analysis/tasks/{task_id}/images/{image_id}, up to the flush of
\* delete_image: the request has selected the job row and the image row in
\* its own session and has computed, from what it read, the blob ids and
\* the new counters.  Nothing locks the rows.
ApiDeleteImageBegin(i) ==
    /\ api.calls < api.budget
    /\ TaskId \in DOMAIN tasks
    /\ i \in DOMAIN images
    /\ api' = [api EXCEPT
                  !.calls = @ + 1,
                  !.deletes = Append(@, [image_id |-> i,
                                         file_ids |-> ImageFileIds(images[i]),
                                         read |-> [f \in {"total_files", "processed_files"}
                                                      |-> tasks[TaskId][f]],
                                         image_status |-> images[i].status])]
    /\ UNCHANGED <<hubvars, envvars, tasks, images, intake, queue, wk, lastUpdate, blobs, deliveries>>

\* The flush of a unit of work that changed the job row `read` into `new`
\* and deleted image row i: UPDATE of the changed counters to the values
\* computed by the request, then DELETE of the image row.
FlushDelete(tbl, read, new) ==
    [tbl EXCEPT ![TaskId] =
        [@ EXCEPT
           !.total_files = IF new.total_files # read.total_files
                           THEN new.total_files ELSE @,
           !.processed_files = IF new.processed_files # read.processed_files
                               THEN new.processed_files ELSE @]]

\* The rest of request k of api.deletes: flush, commit, and the deletion of
\* the blobs.  The UPDATE of a job row that is gone raises (the request ends
\* with 500); the DELETE of an image row that is gone matches no row, which
\* the session only warns about, so the request hands back its blob ids and
\* ends with 204 all the same.
ApiDeleteImageEnd(k) ==
    /\ k \in 1..Len(api.deletes)
    /\ LET d == api.deletes[k]
           rest == [j \in 1..(Len(api.deletes) - 1) |->
                      IF j < k THEN api.deletes[j] ELSE api.deletes[j + 1]]
       IN IF TaskId \in DOMAIN tasks
          THEN /\ tasks' = FlushDelete(tasks, d.read,
                                       delete_image_counters(d.read, d.image_status))
               /\ images' = Without(images, {d.image_id})
               /\ blobs' = blobs \ d.file_ids
               /\ api' = [api EXCEPT
                             !.deletes = rest,
                             !.file_ids = d.file_ids,
                             !.reported = Append(@, [image_id |-> d.image_id,
                                                     file_ids |-> d.file_ids])]
          ELSE /\ api' = [api EXCEPT !.deletes = rest]
               /\ UNCHANGED <<tasks, images, blobs>>
    /\ UNCHANGED <<hubvars, envvars, intake, queue, wk, lastUpdate, deliveries>>

\* The same request for an image that has no row (or a job that has none):
\* 404, nothing is handed back.
ApiDeleteImageNotFound(i) ==
    /\ api.calls < api.budget
    /\ TaskId \notin DOMAIN tasks \/ i \notin DOMAIN images
    /\ intake.pc = "committed"
    /\ api' = [api EXCEPT !.calls = @ + 1, !.file_ids = {}]
    /\ UNCHANGED <<hubvars, envvars, tasks, images, intake, queue, wk, lastUpdate, blobs, deliveries>>

\* DELETE /analysis/tasks/{task_id}: delete_task, commit, then the blobs
\* are deleted.
ApiDeleteTask ==
    /\ api.pc = "idle" /\ api.calls < api.budget
    /\ TaskId \in DOMAIN tasks
    /\ tasks' = Without(tasks, {TaskId})
    /\ images' = <<>>
    /\ blobs' = blobs \ TaskFileIds(tasks[TaskId], images)
    /\ api' = [api EXCEPT !.calls = @ + 1, !.file_ids = TaskFileIds(tasks[TaskId], images)]
    /\ UNCHANGED <<hubvars, envvars, intake, queue, wk, lastUpdate, deliveries>>

\* The box lists of the annotate requests the model sends (BBox: x, y,
\* width, height, optional name, optional is_defect): no box, one named
\* defect box, and an unnamed box without is_defect before a named normal one.
ManualBoxes ==
    { <<>>,
      <<[x |-> 0, y |-> 0, width |-> 5, height |-> 5,
         name |-> Some("bar"), is_defect |-> Some(TRUE)]>>,
      <<[x |-> 1, y |-> 2, width |-> 3, height |-> 4,
         name |-> Null, is_defect |-> Null],
        [x |-> 0, y |-> 0, width |-> 5, height |-> 5,
         name |-> Some("bar"), is_defect |-> Some(FALSE)]>> }

\* The entry as it would be if width and height were taken for the far corner.
ManualDetection_size_as_corner(box) ==
    LET is_defect == IF box.is_defect # Null THEN Get(box.is_defect) ELSE TRUE
    IN [class |-> IF box.name # Null THEN Get(box.name) ELSE "Ruchnaya annotatsiya",
        confidence |-> FullConfidence,
        bbox |-> <<box.x, box.y, box.width, box.height>>,
        defect_summary |-> [type |-> IF is_defect THEN "Povrezhdenie" ELSE "Norma",
                            severity |-> IF is_defect THEN "high" ELSE "none"],
        is_manual |-> TRUE]

\* The detection entry annotate_image builds for a user-drawn box:
\* class = name or the default label, confidence 1.0,
\* bbox = [x, y, x + width, y + height], is_defect defaults to true.
ManualDetection(box) ==
    LET is_defect == IF box.is_defect # Null THEN Get(box.is_defect) ELSE TRUE
    IN [class |-> IF box.name # Null THEN Get(box.name) ELSE "Ruchnaya annotatsiya",
        confidence |-> FullConfidence,
        bbox |-> <<box.x, box.y, box.x + box.width, box.y + box.height>>,
        defect_summary |-> [type |-> IF is_defect THEN "Povrezhdenie" ELSE "Norma",
                            severity |-> IF is_defect THEN "high" ELSE "none"],
        is_manual |-> TRUE]

\* The entry of manual_annotations for a box: the name only when given.
Annotation(box) ==
    LET a == [x |-> box.x, y |-> box.y, width |-> box.width, height |-> box.height,
              is_defect |-> IF box.is_defect # Null THEN Get(box.is_defect) ELSE TRUE]
    IN IF box.name # Null THEN [f \in DOMAIN a \cup {"name"} |->
                                   IF f = "name" THEN Get(box.name) ELSE a[f]]
       ELSE a

\* d.get("is_manual", False)
IsManual(d) == "is_manual" \in DOMAIN d /\ d.is_manual
IsModel(d) == ~IsManual(d)
\* The entries annotate_image counts in defects_count.
IsDefect(d) == d.defect_summary.type # "Norma" /\ d.defect_summary.severity # "none"

\* {**current_summary, **new}: the keys of new replace those of the summary.
Updated(summary, new) ==
    LET current == IF summary # Null THEN Get(summary) ELSE <<>>
    IN [f \in DOMAIN current \cup DOMAIN new |->
          IF f \in DOMAIN new THEN new[f] ELSE current[f]]

\* The merge as it would be if the earlier manual entries were kept.
MergeManual_keeping_manual(summary, boxes) ==
    LET existing == IF summary # Null THEN Get(summary).detections ELSE <<>>
        all == existing \o [k \in 1..Len(boxes) |-> ManualDetection(boxes[k])]
        defects == Len(SelectSeq(all, IsDefect))
    IN Updated(summary,
               [detections |-> all,
                manual_annotations |-> [k \in 1..Len(boxes) |-> Annotation(boxes[k])],
                has_manual_annotations |-> Len(boxes) > 0,
                total_objects |-> Len(all), defects_count |-> defects,
                has_defects |-> defects > 0])

\* The summary annotate_image saves: the non-manual entries of the summary
\* it read, then the new manual ones, the boxes, and the recomputed counters.
MergeManual(summary, boxes) ==
    LET existing == IF summary # Null THEN Get(summary).detections ELSE <<>>
        all == SelectSeq(existing, IsModel) \o [k \in 1..Len(boxes) |-> ManualDetection(boxes[k])]
        defects == Len(SelectSeq(all, IsDefect))
    IN Updated(summary,
               [detections |-> all,
                manual_annotations |-> [k \in 1..Len(boxes) |-> Annotation(boxes[k])],
                has_manual_annotations |-> Len(boxes) > 0,
                total_objects |-> Len(all), defects_count |-> defects,
                has_defects |-> defects > 0])

\* POST .../annotate, up to the call of the annotation service: the handler
\* has read the image row into its session.  boxes is request.bboxes.
\* repeats records that the last request served was the same annotate and
\* that the row still carries the blob it saved.
ApiAnnotateBegin(i, boxes) ==
    /\ api.pc = "idle"
    /\ api.calls < api.budget
    /\ TaskId \in DOMAIN tasks
    /\ i \in DOMAIN images
    /\ api' = [api EXCEPT !.pc = "annotating", !.calls = @ + 1, !.image_id = i,
                           !.summary = images[i].summary, !.boxes = boxes,
                           !.repeats = /\ api.image_id = i
                                       /\ api.boxes = boxes
                                       /\ images[i].result_file_id =
                                            Some(Blob("annotated", api.calls, i))]
    /\ UNCHANGED <<hubvars, envvars, tasks, images, intake, queue, wk, lastUpdate, blobs, deliveries>>

\* POST .../annotate, after the annotation service answered: on success the
\* row gets the new result blob and the merged summary, and the session is
\* committed; otherwise the request fails without a write.  The record of
\* the request (image, summary read, boxes) stays until the next annotate.
ApiAnnotateEnd(ok) ==
    /\ api.pc = "annotating"
    /\ LET new_file_id == Blob("annotated", api.calls, api.image_id)
       IN IF ok
          THEN /\ blobs' = blobs \cup {new_file_id}
               /\ images' = update_image(images, api.image_id, Null,
                                         Some(MergeManual(api.summary, api.boxes)), Null,
                                         Some(new_file_id), Null)
          ELSE UNCHANGED <<blobs, images>>
    /\ api' = [api EXCEPT !.pc = "idle"]
    /\ UNCHANGED <<hubvars, envvars, tasks, intake, queue, wk, lastUpdate, deliveries>>

\* The detections save_image_metrics builds for the metrics request the
\* model sends: one object without a defect; total_objects, defects_count,
\* has_defects are not passed.
Metrics ==
    <<[class |-> "vibration_damper", confidence |-> 90, bbox |-> <<1, 1, 4, 4>>,
       defect_summary |-> [type |-> "Norma", severity |-> "none"],
       is_manual |-> FALSE]>>

\* The summary save_image_metrics saves for a request that passes only
\* `metrics`: the detections are replaced, defects_count counts the metrics
\* of type damage or missing, has_defects falls back to
\* (request.defects_count or 0) > 0, the other keys of the summary stay.
MetricsSummary(summary, metrics) ==
    Updated(summary,
            [detections |-> metrics, total_objects |-> Len(metrics),
             defects_count |-> Len(SelectSeq(metrics,
                                   LAMBDA d : d.defect_summary.type = "Povrezhdenie")),
             has_defects |-> FALSE])

\* POST .../metrics: update_image(summary=updated_summary), commit.
ApiSaveMetrics(i) ==
    /\ api.pc = "idle" /\ api.calls < api.budget
    /\ TaskId \in DOMAIN tasks
    /\ i \in DOMAIN images
    /\ images' = update_image(images, i, Null, Some(MetricsSummary(images[i].summary, Metrics)), Null, Null, Null)
    /\ api' = [api EXCEPT !.calls = @ + 1]
    /\ UNCHANGED <<hubvars, envvars, tasks, intake, queue, wk, lastUpdate, blobs, deliveries>>

(***************************************************************************)
(* Progress Hub: TaskWebSocketManager (app/services/websocket_manager.py), *)
(* the WebSocket endpoints and _updates_consumer (app/main.py).            *)
(* send_to_task iterates over the live registry sets and suspends at every *)
(* send_json; the endpoints run in between.                                *)
(***************************************************************************)
\* The job row of the submission was committed and has been deleted since.
JobDeleted(t) == t = TaskId /\ intake.pc = "committed" /\ TaskId \notin DOMAIN tasks

\* The state after a submission of one file went through: the job row and
\* its preview row are committed and the work message waits in the queue.
Submitted ==
    /\ tasks = (TaskId :> [create_task(1, 1) EXCEPT
                              !.originals_archive_file_id = Some(StagingBlob)])
    /\ images = (ImageId(0, 1) :> NewImage(Blob("orig", 0, 1), 1))
    /\ intake = [pc |-> "committed", files |-> Photos(1), n |-> 1,
                 preview_limit |-> 1, error |-> Null,
                 tasks |-> tasks, images |-> images]
    /\ queue = <<[task_id |-> TaskId, preview_limit |-> 1]>>
    /\ blobs = {Blob("orig", 0, 1), StagingBlob}
    /\ wk = [w \in Workers |-> IdleWorker]
    /\ lastUpdate = Null
    /\ api = IdleApi(MaxApiCalls)
    /\ deliveries = 0
    /\ amqp = [c \in Clients |-> Connected]
    /\ archives = <<>>

\* The hub starts with no socket and no event, next to the submitted job.
InitHub ==
    /\ Submitted
    /\ connections = [t \in TaskIds |-> {}]
    /\ history_connections = {}
    /\ sockets = [ws \in WebSockets |-> NewSocket]
    /\ updates = [pending |-> <<>>, published |-> 0]
    /\ fanout = IdleFanout

\* TaskWebSocketManager.disconnect: the socket leaves the set of the task.
disconnect(conns, task_id, websocket) == [conns EXCEPT ![task_id] = @ \ {websocket}]

\* TaskWebSocketManager.disconnect_history.
disconnect_history(conns, websocket) == conns \ {websocket}

\* The set the running loop of send_to_task / send_to_history iterates over.
Iterated(f, conns, hist) ==
    IF f.pc = "task" THEN conns[Get(f.data).task_id]
    ELSE IF f.pc = "history" THEN hist
    ELSE {}

\* `for connection in S`: the iterator is created over the live set S and
\* the first send is awaited.
StartLoop(f, phase, S, first) ==
    [f EXCEPT !.pc = phase, !.sending = first, !.used = Cardinality(S), !.visited = {},
              !.changed = FALSE, !.disconnected = {}]

\* Worker side of the exchange: publish_update hands an event for the task
\* to the fan-out exchange, which puts it in the hub's queue.  job_gone
\* records whether the job row was already deleted at that moment.
Publish(task_id) ==
    /\ updates.published < MaxUpdates
    /\ updates' = [pending |-> Append(updates.pending,
                                      [task_id |-> task_id, n |-> updates.published + 1,
                                       job_gone |-> JobDeleted(task_id)]),
                   published |-> updates.published + 1]
    /\ UNCHANGED <<jobvars, envvars, connections, history_connections, sockets, fanout>>

\* WS /ws/tasks/{task_id}: task_ws_manager.connect.
WsConnect(task_id, ws) ==
    /\ sockets[ws].state = "new"
    /\ connections' = [connections EXCEPT ![task_id] = @ \cup {ws}]
    /\ sockets' = [sockets EXCEPT ![ws].state = "open", ![ws].kind = "task",
                                  ![ws].task_id = task_id]
    /\ fanout' = IF fanout.pc = "task" /\ Get(fanout.data).task_id = task_id
                 THEN [fanout EXCEPT !.changed = TRUE] ELSE fanout
    /\ UNCHANGED <<jobvars, envvars, history_connections, updates>>

\* WS /ws/tasks/{task_id}: receive_text raised (the client went away), the
\* finally clause calls task_ws_manager.disconnect.
WsDisconnect(ws) ==
    /\ sockets[ws].state \in {"open", "broken"} /\ sockets[ws].kind = "task"
    /\ connections' = disconnect(connections, sockets[ws].task_id, ws)
    /\ sockets' = [sockets EXCEPT ![ws].state = "closed"]
    /\ fanout' = IF fanout.pc = "task" /\ Get(fanout.data).task_id = sockets[ws].task_id
                    /\ ws \in connections[sockets[ws].task_id]
                 THEN [fanout EXCEPT !.changed = TRUE] ELSE fanout
    /\ UNCHANGED <<jobvars, envvars, history_connections, updates>>

\* WS /ws/history: task_ws_manager.connect_history.
WsConnectHistory(ws) ==
    /\ sockets[ws].state = "new"
    /\ history_connections' = history_connections \cup {ws}
    /\ sockets' = [sockets EXCEPT ![ws].state = "open", ![ws].kind = "history"]
    /\ fanout' = IF fanout.pc = "history" THEN [fanout EXCEPT !.changed = TRUE] ELSE fanout
    /\ UNCHANGED <<jobvars, envvars, connections, updates>>

\* WS /ws/history: the finally clause calls disconnect_history.
WsDisconnectHistory(ws) ==
    /\ sockets[ws].state \in {"open", "broken"} /\ sockets[ws].kind = "history"
    /\ history_connections' = disconnect_history(history_connections, ws)
    /\ sockets' = [sockets EXCEPT ![ws].state = "closed"]
    /\ fanout' = IF fanout.pc = "history" /\ ws \in history_connections
                 THEN [fanout EXCEPT !.changed = TRUE] ELSE fanout
    /\ UNCHANGED <<jobvars, envvars, connections, updates>>

\* _updates_consumer's handler takes the next event and calls send_to_task,
\* which runs up to its first send_json: to `first` of the task's sockets,
\* or of the history sockets when the task has none; with no socket at all
\* it returns.
Consume(first) ==
    /\ fanout.pc = "idle"
    /\ amqp["api"].pc = "connected"
    /\ updates.pending # <<>>
    /\ LET data == Head(updates.pending)
           f == [IdleFanout EXCEPT !.data = Some(data),
                                   !.start = connections[data.task_id] \cup history_connections]
       IN IF connections[data.task_id] # {}
          THEN /\ first \in connections[data.task_id]
               /\ fanout' = StartLoop(f, "task", connections[data.task_id], first)
          ELSE IF history_connections # {}
          THEN /\ first \in history_connections
               /\ fanout' = StartLoop(f, "history", history_connections, first)
          ELSE /\ first = 0
               /\ fanout' = IdleFanout
    /\ updates' = [updates EXCEPT !.pending = Tail(@)]
    /\ UNCHANGED <<jobvars, envvars, connections, history_connections, sockets>>

\* The awaited send_json to fanout.sending returns (ok) or raises, and the
\* loop asks its set iterator for the next socket:
\*  - the set has another size than when the loop began: RuntimeError, which
\*    leaves send_to_task and is logged by the handler;
\*  - more: the iterator yields nxt;
\*  - otherwise the loop is over, the sockets whose send raised are
\*    disconnected, and send_to_history begins with nxt (task loop) or the
\*    call returns.
\* After a change that kept the size, what the iterator still yields is
\* not determined: it may yield any socket not visited yet, or stop.
SendReturns(ok, more, nxt) ==
    /\ fanout.pc \in {"task", "history"}
    /\ LET f == fanout
           ws == f.sending
           data == Get(f.data)
           S == Iterated(f, connections, history_connections)
           f1 == [f EXCEPT !.visited = @ \cup {ws},
                           !.disconnected = IF ok THEN @ ELSE @ \cup {ws}]
           rest == S \ f1.visited
       IN /\ sockets' = IF ok THEN [sockets EXCEPT ![ws].received = @ \cup {data.n}]
                        ELSE IF sockets[ws].state = "open"
                        THEN [sockets EXCEPT ![ws].state = "broken"]
                        ELSE sockets
          /\ IF Cardinality(S) # f.used
             THEN /\ ~more /\ nxt = 0
                  /\ fanout' = IdleFanout
                  /\ UNCHANGED <<connections, history_connections>>
             ELSE IF more
             THEN /\ nxt \in rest
                  /\ fanout' = [f1 EXCEPT !.sending = nxt]
                  /\ UNCHANGED <<connections, history_connections>>
             ELSE /\ rest = {} \/ f.changed
                  /\ IF f.pc = "task"
                     THEN /\ connections' = [connections EXCEPT ![data.task_id] = @ \ f1.disconnected]
                          /\ UNCHANGED history_connections
                          /\ IF history_connections # {}
                             THEN /\ nxt \in history_connections
                                  /\ fanout' = StartLoop(f1, "history", history_connections, nxt)
                             ELSE /\ nxt = 0
                                  /\ fanout' = IdleFanout
                     ELSE /\ history_connections' = history_connections \ f1.disconnected
                          /\ UNCHANGED connections
                          /\ nxt = 0
                          /\ fanout' = IdleFanout
    /\ UNCHANGED <<jobvars, envvars, updates>>

HubNext ==
    \/ \E t \in TaskIds : Publish(t)
    \/ \E t \in TaskIds, ws \in WebSockets : WsConnect(t, ws)
    \/ \E ws \in WebSockets : WsDisconnect(ws)
    \/ \E ws \in WebSockets : WsConnectHistory(ws)
    \/ \E ws \in WebSockets : WsDisconnectHistory(ws)
    \/ \E first \in WebSockets \cup {0} : Consume(first)
    \/ \E ok \in BOOLEAN, more \in BOOLEAN, nxt \in WebSockets \cup {0} : SendReturns(ok, more, nxt)

\* The rows a request can name.
ImageIds == 1..((MaxRedeliveries + 2) * MaxFiles)

IntakeNext ==
    \/ \E n \in 1..MaxFiles, pl \in 1..PREVIEW_LIMIT, up \in SUBSET (1..MaxFiles) :
          IntakeSubmit(Photos(n), pl, up)
    \/ \E n \in 1..MaxFiles : IntakeUploadFails(Photos(n))
    \/ \E ok \in BOOLEAN : IntakePublish(ok)
    \/ \E ok \in BOOLEAN : IntakeCommit(ok)

\* The steps of worker w.
WorkerStep(w) ==
    \/ Dequeue(w)
    \/ \E ok \in BOOLEAN : Start(w, ok)
    \/ \E out \in {"ok", "store", "blob"} : Load(w, out)
    \/ \E ok \in BOOLEAN : NoFiles(w, ok)
    \/ \E ok \in BOOLEAN : NoFilesPublish(w, ok)
    \/ \E out \in {"ok", "failed", "raised"} : ImgStart(w, out)
    \/ \E r \in DetectorResults,
          out \in {"ok", "detect_failed", "detect_raised", "write_failed", "write_raised"} :
          ImgRun(w, r, out)
    \/ \E out \in {"ok", "store", "queue"} : Cadence(w, out)
    \/ \E up \in SUBSET (1..BATCH_SIZE), out \in {"ok", "blob", "store"} :
          Chunk(w, up, out)
    \/ \E out \in {"ok", "blob", "store"} : Promote(w, out)
    \/ \E ok \in BOOLEAN : Cleanup(w, ok)
    \/ \E out \in {"ok", "blob", "store"} : Archive(w, out)
    \/ \E ok \in BOOLEAN : Finalize(w, ok)
    \/ \E ok \in BOOLEAN : PublishFinal(w, ok)
    \/ Ack(w)

WorkerNext == \E w \in Workers : WorkerStep(w)

LostNext == \E w \in Workers : WorkerLost(w)

ApiNext ==
    \/ \E i \in ImageIds : ApiDeleteImageBegin(i)
    \/ \E k \in 1..Max(MaxApiCalls, MaxMerges) : ApiDeleteImageEnd(k)
    \/ \E i \in ImageIds : ApiDeleteImageNotFound(i)
    \/ ApiDeleteTask
    \/ \E i \in ImageIds, boxes \in ManualBoxes : ApiAnnotateBegin(i, boxes)
    \/ \E ok \in BOOLEAN : ApiAnnotateEnd(ok)
    \/ \E i \in ImageIds : ApiSaveMetrics(i)

\* The submissions of every shape, each validated and, when it passes,
\* carried to the end of the request.
NextIntake ==
    \/ \E files \in Submissions : IntakeReject(files)
    \/ \E files \in Submissions, pl \in 1..PREVIEW_LIMIT, up \in SUBSET (1..MaxFiles) :
          IntakeSubmit(files, pl, up)
    \/ \E files \in Submissions : IntakeUploadFails(files)
    \/ \E ok \in BOOLEAN : IntakePublish(ok)
    \/ \E ok \in BOOLEAN : IntakeCommit(ok)
SpecIntake == Init /\ [][NextIntake]_vars

\* The intake alone, for every value of the two preview settings up to
\* MAX_BATCH_FILES, every preview_limit the request may carry under them
\* (Query ge=1, le=settings.PREVIEW_LIMIT) and every number of files.
InitPartition ==
    /\ intake \in {ValidRequest(limit, n, pl) :
                       limit \in 1..MAX_BATCH_FILES, n \in 1..MAX_BATCH_FILES,
                       pl \in 1..MAX_BATCH_FILES}
    /\ intake.preview_limit <= intake.settings.PREVIEW_LIMIT
    /\ tasks = <<>>
    /\ images = <<>>
    /\ queue = <<>>
    /\ wk = [w \in Workers |-> IdleWorker]
    /\ lastUpdate = Null
    /\ blobs = {}
    /\ api = IdleApi(MaxApiCalls)
    /\ deliveries = 0
    /\ connections = [t \in TaskIds |-> {}]
    /\ history_connections = {}
    /\ sockets = [ws \in WebSockets |-> NewSocket]
    /\ updates = [pending |-> <<>>, published |-> 0]
    /\ fanout = IdleFanout
    /\ amqp = [c \in Clients |-> Connected]
    /\ archives = <<>>

NextPartition ==
    \/ \E up \in SUBSET (1..MAX_BATCH_FILES) : IntakePartition(up)
    \/ \E ok \in BOOLEAN : IntakePublish(ok)
    \/ \E ok \in BOOLEAN : IntakeCommit(ok)
SpecPartition == InitPartition /\ [][NextPartition]_vars

\* The API and the worker start, each connects to the broker, and the
\* submission and the run follow.
InitConnect ==
    /\ tasks = <<>>
    /\ images = <<>>
    /\ intake = IdleIntake
    /\ queue = <<>>
    /\ wk = [w \in Workers |-> IdleWorker]
    /\ lastUpdate = Null
    /\ blobs = {}
    /\ api = IdleApi(MaxApiCalls)
    /\ deliveries = 0
    /\ connections = [t \in TaskIds |-> {}]
    /\ history_connections = {}
    /\ sockets = [ws \in WebSockets |-> NewSocket]
    /\ updates = [pending |-> <<>>, published |-> 0]
    /\ fanout = IdleFanout
    /\ amqp = [c \in Clients |-> Connecting]
    /\ archives = <<>>

NextConnect == ConnectNext \/ IntakeNext \/ WorkerNext
SpecConnect == InitConnect /\ [][NextConnect]_vars

\* The state after a submission of n files went through and the batch
\* upload stored the preview files `uploaded`: the rows are committed and
\* the work message waits in the queue.
SubmittedJob(n, uploaded) ==
    LET up == SortedSeq(uploaded)
        stored == [k \in 1..Len(up) |->
                      [file_id |-> Blob("orig", 0, up[k]), file_name |-> up[k]]]
        row == [create_task(n, PREVIEW_LIMIT) EXCEPT
                   !.originals_archive_file_id = Some(StagingBlob)]
    IN /\ tasks = (TaskId :> row)
       /\ images = add_images(<<>>, [k \in 1..Len(up) |-> ImageId(0, up[k])], stored)
       /\ intake = [pc |-> "committed", files |-> Photos(n), n |-> n,
                    preview_limit |-> PREVIEW_LIMIT, error |-> Null,
                    tasks |-> tasks, images |-> images]
       /\ queue = <<[task_id |-> TaskId, preview_limit |-> PREVIEW_LIMIT]>>
       /\ blobs = {Blob("orig", 0, f) : f \in uploaded} \cup {StagingBlob}
       /\ lastUpdate = Null
       /\ api = IdleApi(MaxApiCalls)
       /\ deliveries = 0
       /\ connections = [t \in TaskIds |-> {}]
       /\ history_connections = {}
       /\ sockets = [ws \in WebSockets |-> NewSocket]
       /\ updates = [pending |-> <<>>, published |-> 0]
       /\ fanout = IdleFanout
       /\ archives = <<>>

\* Two workers consume from the queue that holds the work message of a
\* submitted job, and a worker can lose its connection.
InitExclusive ==
    /\ \E n \in 1..MaxFiles, uploaded \in SUBSET (1..UPLOAD_PREVIEW_LIMIT) :
          SubmittedJob(n, uploaded)
    /\ wk = [w \in TwoWorkers |-> IdleWorker]
    /\ amqp = [c \in {"api"} \cup TwoWorkers |-> Connected]

\* One worker and the work message of a submitted job of up to
\* MAX_BATCH_FILES files, the largest of which fills a chunk of the bulk
\* pass.
InitBulk ==
    /\ \E n \in 1..MAX_BATCH_FILES, uploaded \in SUBSET (1..UPLOAD_PREVIEW_LIMIT) :
          SubmittedJob(n, uploaded)
    /\ wk = [w \in Workers |-> IdleWorker]
    /\ amqp = [c \in Clients |-> Connected]

NextBulk == WorkerNext
SpecBulk == InitBulk /\ [][NextBulk]_vars

\* The steps of worker w in which no call to the Task Store, the Blob
\* Store, the detector or the broker fails.
WorkerRuns(w) ==
    \/ Dequeue(w)
    \/ Start(w, TRUE)
    \/ Load(w, "ok")
    \/ NoFiles(w, TRUE)
    \/ NoFilesPublish(w, TRUE)
    \/ ImgStart(w, "ok")
    \/ \E r \in DetectorResults : ImgRun(w, r, "ok")
    \/ Cadence(w, "ok")
    \/ \E up \in SUBSET (1..BATCH_SIZE) : Chunk(w, up, "ok")
    \/ Promote(w, "ok")
    \/ Cleanup(w, TRUE)
    \/ Archive(w, "ok")
    \/ Finalize(w, TRUE)
    \/ PublishFinal(w, TRUE)
    \/ Ack(w)

NextExclusive ==
    \/ \E w \in TwoWorkers : WorkerRuns(w)
    \/ \E w \in TwoWorkers : ConnectionLost(w)
SpecExclusive == InitExclusive /\ [][NextExclusive]_vars

\* One submission, one worker, no other request and no lost worker.
NextRun == IntakeNext \/ WorkerNext
SpecRun == Init /\ [][NextRun]_vars

\* The same with the mutating requests of the Intake API.
NextApi == IntakeNext \/ WorkerNext \/ ApiNext
SpecApi == Init /\ [][NextApi]_vars

\* The same with workers that are lost and messages that are re-delivered.
NextRedelivery == IntakeNext \/ WorkerNext \/ LostNext
SpecRedelivery == Init /\ [][NextRedelivery]_vars

\* The Progress Hub with its clients, next to a submitted job that a
\* request may delete.
\* The state in which process_task leaves a job of one preview file that
\* the detector answered with r: the job Completed, the row promoted.
Processed(r) ==
    /\ tasks = (TaskId :> [create_task(1, 1) EXCEPT
                              !.originals_archive_file_id = Some(StagingBlob),
                              !.status = COMPLETED,
                              !.processed_files = 1,
                              !.defects_found = IF r.has_defects THEN r.defects_count ELSE 0,
                              !.message = Some("done"),
                              !.results_archive_file_id = Some(Blob("results", 1, 0)),
                              !.completed_at = Some("utcnow")])
    /\ images = (ImageId(0, 1) :> [NewImage(Blob("orig", 0, 1), 1) EXCEPT
                                     !.status = COMPLETED,
                                     !.summary = Some(r),
                                     !.is_preview = TRUE,
                                     !.result_file_id = Some(Blob("preview", 1, 1))])
    /\ intake = [pc |-> "committed", files |-> Photos(1), n |-> 1,
                 preview_limit |-> 1, error |-> Null,
                 tasks |-> (TaskId :> [create_task(1, 1) EXCEPT
                                         !.originals_archive_file_id = Some(StagingBlob)]),
                 images |-> (ImageId(0, 1) :> NewImage(Blob("orig", 0, 1), 1))]
    /\ queue = <<>>
    /\ blobs = {Blob("orig", 0, 1), Blob("preview", 1, 1), Blob("results", 1, 0)}
    /\ wk = [w \in Workers |-> [IdleWorker EXCEPT !.outcome = "finished"]]
    /\ lastUpdate = Some(Progress(TaskId, COMPLETED, 1, 1, 0,
                                  IF r.has_defects THEN r.defects_count ELSE 0,
                                  "task finished"))
    /\ deliveries = 1
    /\ amqp = [c \in Clients |-> Connected]
    /\ archives = (Blob("results", 1, 0) :> <<ZipPath(r, 1)>>)

\* The annotate, metrics and delete requests on a finished job.
InitMerge ==
    /\ \E r \in DetectorResults : Processed(r)
    /\ api = IdleApi(MaxMerges)
    /\ connections = [t \in TaskIds |-> {}]
    /\ history_connections = {}
    /\ sockets = [ws \in WebSockets |-> NewSocket]
    /\ updates = [pending |-> <<>>, published |-> 0]
    /\ fanout = IdleFanout

NextMerge == ApiNext
SpecMerge == InitMerge /\ [][NextMerge]_vars

NextHub == ApiDeleteTask \/ HubNext
SpecHub == InitHub /\ [][NextHub]_vars

Next == IntakeNext \/ WorkerNext \/ LostNext \/ ApiNext \/ HubNext
Spec == Init /\ [][Next]_vars

(***************************************************************************)
(* Properties.                                                             *)
(***************************************************************************)
Terminal == {COMPLETED, FAILED}

\* The work messages that are enqueued or handed out and not acknowledged.
PendingMessages ==
    {queue[k] : k \in 1..Len(queue)} \cup
    {Get(wk[w].msg) : w \in {v \in Workers : wk[v].msg # Null}}

\* C1: whenever a work message is enqueued or in flight, the job row of
\* POST /predict/batch, its preview Image rows and its staging-archive blob
\* id are committed in the Task Store.
C1_CommittedBeforePublish ==
    \A m \in PendingMessages :
        /\ m.task_id \in DOMAIN tasks
        /\ tasks[m.task_id].originals_archive_file_id # Null
        /\ DOMAIN intake.images \subseteq DOMAIN images

\* Position of a status on the path Queued -> Processing -> terminal.
StatusRank(status) == IF status = QUEUED THEN 0 ELSE IF status = PROCESSING THEN 1 ELSE 2

\* C2: in every step the status of a job row moves forward on the path
\* Queued -> Processing -> {Completed | Failed} or stays, and a Completed
\* or Failed status never changes again.
C2_StatusMonotonic ==
    [][\A t \in (DOMAIN tasks) \cap (DOMAIN tasks') :
           /\ StatusRank(tasks[t].status) <= StatusRank(tasks'[t].status)
           /\ tasks[t].status \in Terminal => tasks'[t].status = tasks[t].status]_vars

\* C3: every job row has processed_files + failed_files <= total_files.
C3_CountersWithinTotal ==
    \A t \in DOMAIN tasks :
        tasks[t].processed_files + tasks[t].failed_files <= tasks[t].total_files

\* C4 (as the final result of a run): once a worker has consumed and
\* acknowledged the work message of a job, the job row is Completed or
\* Failed and the latest published event is a terminal one.
C4_ConsumedJobIsTerminal ==
    \A w \in Workers :
        (wk[w].pc = "idle" /\ wk[w].outcome \notin {"none", "lost"} /\ PendingMessages = {}
            /\ TaskId \in DOMAIN tasks)
        => /\ tasks[TaskId].status \in Terminal
           /\ lastUpdate # Null
           /\ Get(lastUpdate).status \in Terminal

\* C5: when process_task ended with a Task Store or queue failure, the
\* work message has not been acknowledged: it is still enqueued or held.
C5_NoAckOnStoreFailure ==
    \A w \in Workers :
        (wk[w].pc = "idle" /\ wk[w].outcome \in {"store", "queue"}) => PendingMessages # {}

\* C6: while a job is Processing, no step of an Intake API request writes
\* to the job row or to an image row of the job (the deletion of the whole
\* job is left aside).
C6_WorkerIsSoleWriter ==
    [][(TaskId \in DOMAIN tasks /\ tasks[TaskId].status = PROCESSING /\ api' # api
           /\ TaskId \in DOMAIN tasks')
          => (tasks' = tasks /\ images' = images)]_vars

\* C7: a job row has completed_at set if and only if its status is
\* Completed or Failed.
C7_CompletedAtIffTerminal ==
    \A t \in DOMAIN tasks : (tasks[t].completed_at # Null) <=> (tasks[t].status \in Terminal)

\* C8: when a job row is Completed, every Image row of the job is Completed.
C8_CompletedJobHasCompletedImages ==
    \A t \in DOMAIN tasks :
        tasks[t].status = COMPLETED => \A i \in DOMAIN images : images[i].status = COMPLETED

\* C9: the results-archive blob id of a job row is never set while the job
\* is Queued or Processing, and it is set when the job is Completed.
C9_ResultsArchiveIffTerminal ==
    \A t \in DOMAIN tasks :
        /\ tasks[t].results_archive_file_id # Null => tasks[t].status \in Terminal
        /\ tasks[t].status = COMPLETED => tasks[t].results_archive_file_id # Null

\* C10: the step that finalizes a job writes Completed exactly when the
\* failed count is 0, otherwise Failed with the message "task completed
\* with errors", together with the worker's counters; the terminal event
\* published next carries that status and those counters.
C10_FinalStatusFollowsFailed ==
    [][\A w \in Workers :
          /\ (wk[w].pc = "finalize" /\ wk'[w].pc = "publish_final" /\ TaskId \in DOMAIN tasks')
             => /\ (tasks'[TaskId].status = COMPLETED) <=> (wk[w].failed = 0)
                /\ (tasks'[TaskId].status = FAILED) <=> (wk[w].failed # 0)
                /\ wk[w].failed # 0 =>
                      tasks'[TaskId].message = Some("task completed with errors")
                /\ tasks'[TaskId].processed_files = wk[w].processed
                /\ tasks'[TaskId].failed_files = wk[w].failed
                /\ tasks'[TaskId].defects_found = wk[w].defects_found
                /\ wk'[w].processed = wk[w].processed
                /\ wk'[w].failed = wk[w].failed
                /\ wk'[w].defects_found = wk[w].defects_found
          /\ (wk[w].pc = "publish_final" /\ wk'[w].outcome = "finished")
             => /\ lastUpdate' # Null
                /\ (Get(lastUpdate').status = COMPLETED) <=> (wk[w].failed = 0)
                /\ (Get(lastUpdate').status = FAILED) <=> (wk[w].failed # 0)
                /\ Get(lastUpdate').processed_files = wk[w].processed
                /\ Get(lastUpdate').failed_files = wk[w].failed
                /\ Get(lastUpdate').defects_found = wk[w].defects_found]_vars

\* C10 witness: a job was finalized with failures: the row is Failed with
\* the message, and the terminal event with the same counters is published.
C10_Witness ==
    /\ \E w \in Workers : wk[w].outcome = "finished"
    /\ TaskId \in DOMAIN tasks
    /\ tasks[TaskId].status = FAILED
    /\ tasks[TaskId].message = Some("task completed with errors")
    /\ tasks[TaskId].failed_files > 0
    /\ tasks[TaskId].processed_files > 0
    /\ lastUpdate # Null
    /\ Get(lastUpdate).status = FAILED
    /\ Get(lastUpdate).failed_files = tasks[TaskId].failed_files
    /\ Get(lastUpdate).processed_files = tasks[TaskId].processed_files

\* C11: inside the bulk pass the failed counter grows by the chunk size only
\* in the step of the chunk's batch upload, and then nothing was stored, the
\* processed counter stays, no entry of the chunk reaches the detector and
\* the worker is at the next chunk (or past the loop); the steps of one
\* image add at most 1 and the progress write adds nothing.
C11_OnlyUploadFailureCountsChunk ==
    [][\A w \in Workers :
          LET s == wk[w]
              s2 == wk'[w]
          IN (s.pass = "bulk" /\ s2 # s /\ s2.pc # "idle") =>
                /\ s.pc = "chunk" =>
                      \/ s2.failed = s.failed
                      \/ /\ s2.failed = s.failed + ChunkLen(s)
                         /\ s2.processed = s.processed
                         /\ blobs' = blobs
                         /\ images' = images
                         /\ s2.pc \in {"chunk", "promote", "cleanup", "archive"}
                         /\ s2.pc = "chunk" => s2.batch_start = s.batch_start + BATCH_SIZE
                /\ s.pc \in {"img_start", "img_run"} =>
                      (s2.failed = s.failed \/ s2.failed = s.failed + 1)
                /\ s.pc = "cadence" => s2.failed = s.failed]_vars

\* C12: when a step of one image raises, the row of the image is Failed
\* with an error message, failed grows by exactly 1, processed stays, and
\* the loop goes on with the progress write or the next image.
C12_ImageFailureIsIsolated ==
    [][\A w \in Workers :
          LET s == wk[w]
              s2 == wk'[w]
              next == Advance(s)
          IN (/\ s2 # s
              /\ \/ s.pc = "img_start" /\ s2.pc # "img_run"
                 \/ s.pc = "img_run" /\ s2.processed = s.processed)
             => /\ CurrentImage(s) \in DOMAIN images'
                /\ images'[CurrentImage(s)].status = FAILED
                /\ images'[CurrentImage(s)].error_message # Null
                /\ s2.failed = s.failed + 1
                /\ s2.processed = s.processed
                /\ \/ s2.pc = "cadence" /\ s2.pass = s.pass /\ s2.pos = s.pos
                         /\ s2.batch_start = s.batch_start
                   \/ s2.pc = next.pc /\ s2.pass = next.pass /\ s2.pos = next.pos
                         /\ s2.batch_start = next.batch_start]_vars

\* C13: every Processing progress event is published when the processed
\* count or the failed count has just reached a positive multiple of 100.
C13_ProgressEveryHundred ==
    (lastUpdate # Null /\ Get(lastUpdate).status = PROCESSING) =>
        \/ Get(lastUpdate).processed_files > 0
              /\ Get(lastUpdate).processed_files % PROGRESS_EVERY = 0
        \/ Get(lastUpdate).failed_files > 0
              /\ Get(lastUpdate).failed_files % PROGRESS_EVERY = 0

\* C14: an event published for the job carries a processed_files value not
\* below that of the event published before it, and no event is published
\* after a Completed or Failed event.
C14_EventsInProcessedOrder ==
    [][(lastUpdate # Null /\ lastUpdate' # lastUpdate) =>
          /\ Get(lastUpdate').processed_files >= Get(lastUpdate).processed_files
          /\ Get(lastUpdate).status \notin Terminal]_vars

\* C15: when send_to_task is over for an event of job J, every socket that
\* was registered for J or for the history when the call began, still is,
\* and had no send raise, has received the event, and no socket opened for
\* another job has.
C15_FanoutReachesSubscribers ==
    [][(fanout.pc # "idle" /\ fanout'.pc = "idle") =>
          LET e == Get(fanout.data)
          IN /\ \A ws \in fanout.start \cap (connections'[e.task_id] \cup history_connections') :
                   sockets'[ws].state # "broken" => e.n \in sockets'[ws].received
             /\ \A ws \in WebSockets :
                   (sockets'[ws].kind = "task" /\ sockets'[ws].task_id # e.task_id)
                      => e.n \notin sockets'[ws].received]_vars

\* C16: a socket to which a send raised is out of the registries when
\* send_to_task is over and receives no event afterwards, and the sockets
\* that stay registered have received the event of the call.
C16_FailedSubscriberIsDropped ==
    [][/\ (fanout.pc # "idle" /\ fanout'.pc = "idle") =>
             /\ \A ws \in WebSockets :
                   sockets'[ws].state = "broken"
                      => /\ ws \notin history_connections'
                         /\ \A t \in TaskIds : ws \notin connections'[t]
             /\ \A ws \in fanout.start \cap
                          (connections'[Get(fanout.data).task_id] \cup history_connections') :
                   Get(fanout.data).n \in sockets'[ws].received
       /\ \A ws \in WebSockets :
             sockets[ws].state = "broken" => sockets'[ws].received = sockets[ws].received]_vars

\* C17: an event that was published after the job row had been deleted is
\* delivered to no socket of the endpoint /ws/tasks/{task_id}.
C17_NoDeliveryAfterDelete ==
    [][\A ws \in WebSockets :
          (sockets'[ws].received # sockets[ws].received /\ sockets[ws].kind = "task")
             => ~Get(fanout.data).job_gone]_vars

\* C18: when annotate_image saves its merge for boxes M, the detections of
\* the row hold exactly |M| manual entries, the k-th with
\* bbox = [x, y, x + width, y + height] of the k-th box and confidence 1.0;
\* the non-manual entries are those of the summary the handler read,
\* unchanged and in their order; and there is no other entry, so the manual
\* entries that summary had are gone.
C18_MergeReplacesOnlyManual ==
    [][(api.pc = "annotating" /\ api'.pc = "idle" /\ images' # images) =>
         LET i == api.image_id
             M == api.boxes
             before == IF api.summary # Null THEN Get(api.summary).detections ELSE <<>>
             after == Get(images'[i].summary).detections
             manual == SelectSeq(after, LAMBDA d : "is_manual" \in DOMAIN d /\ d.is_manual)
             kept(ds) == SelectSeq(ds, LAMBDA d : ~("is_manual" \in DOMAIN d /\ d.is_manual))
         IN /\ Len(manual) = Len(M)
            /\ \A k \in 1..Len(M) :
                  /\ manual[k].bbox = <<M[k].x, M[k].y, M[k].x + M[k].width,
                                        M[k].y + M[k].height>>
                  /\ manual[k].confidence = FullConfidence
            /\ kept(after) = kept(before)
            /\ Len(after) = Len(kept(before)) + Len(M)]_vars

\* C18 witness: a merge was saved for a non-empty list of boxes on a row
\* whose summary held a detector entry and a manual entry; the detector
\* entry is in the saved detections and the earlier manual entry is not.
C18_Witness ==
    /\ api.pc = "idle"
    /\ Len(api.boxes) > 0
    /\ api.summary # Null
    /\ api.image_id \in DOMAIN images
    /\ images[api.image_id].result_file_id = Some(Blob("annotated", api.calls, api.image_id))
    /\ LET before == Get(api.summary).detections
           after == Get(images[api.image_id].summary).detections
       IN /\ \E k \in 1..Len(before) :
                /\ "is_manual" \notin DOMAIN before[k]
                /\ \E j \in 1..Len(after) : after[j] = before[k]
          /\ \E k \in 1..Len(before) :
                /\ "is_manual" \in DOMAIN before[k] /\ before[k].is_manual
                /\ \A j \in 1..Len(after) : after[j] # before[k]

\* C19: when annotate_image saves the merge of a request that re-issues the
\* last request (same image, same boxes, nothing written in between), the
\* saved summary has the detections, total_objects and defects_count that
\* the row had after the first merge.
C19_MergeIsIdempotent ==
    [][(api.pc = "annotating" /\ api'.pc = "idle" /\ api.repeats /\ images' # images) =>
         LET once == Get(images[api.image_id].summary)
             twice == Get(images'[api.image_id].summary)
         IN /\ twice.detections = once.detections
            /\ twice.total_objects = once.total_objects
            /\ twice.defects_count = once.defects_count]_vars

\* C19 witness: the same non-empty list of boxes was merged twice in a row
\* into a row that also holds a detector entry.
C19_Witness ==
    /\ api.pc = "idle"
    /\ api.repeats
    /\ Len(api.boxes) > 0
    /\ api.image_id \in DOMAIN images
    /\ images[api.image_id].result_file_id = Some(Blob("annotated", api.calls, api.image_id))
    /\ LET after == Get(images[api.image_id].summary).detections
       IN /\ \E k \in 1..Len(after) : "is_manual" \notin DOMAIN after[k]
          /\ \E k \in 1..Len(after) : "is_manual" \in DOMAIN after[k] /\ after[k].is_manual

\* C20: every image row marked as a preview has a result blob id.
C20_PreviewHasResultBlob ==
    \A i \in DOMAIN images : images[i].is_preview => images[i].result_file_id # Null

\* C20 witness: a row was promoted and an annotate request has since
\* replaced its result blob.
C20_Witness ==
    \E i \in DOMAIN images :
       /\ images[i].is_preview
       /\ images[i].result_file_id # Null
       /\ Get(images[i].result_file_id).kind = "annotated"


\* C27: a work message that waits in the queue for a Processing job can
\* still be processed: the staging archive that the job row references,
\* which every run downloads before its first image, is still in the Blob
\* Store, whatever the point at which the earlier run stopped.
C27_RedeliveredJobIsProcessable ==
    \A k \in 1..Len(queue) :
        LET t == queue[k].task_id
        IN (t \in DOMAIN tasks /\ tasks[t].status = PROCESSING
               /\ tasks[t].originals_archive_file_id # Null)
           => Get(tasks[t].originals_archive_file_id) \in blobs

\* C29: the save of an annotate merge and the writes of the worker do not
\* lose each other's entries.  The step that saves the merge of the boxes M
\* leaves in the row every non-manual detection the row held just before
\* and exactly |M| manual entries, and a write of the worker to a row keeps
\* the manual entries the row held.
C29_MergeAtomicWithWorker ==
    [][\A i \in (DOMAIN images) \cap (DOMAIN images') :
          LET before == IF images[i].summary # Null
                        THEN Get(images[i].summary).detections ELSE <<>>
              after == IF images'[i].summary # Null
                       THEN Get(images'[i].summary).detections ELSE <<>>
          IN /\ (api.pc = "annotating" /\ api'.pc = "idle" /\ api.image_id = i
                    /\ images'[i] # images[i])
                => /\ SelectSeq(after, IsModel) = SelectSeq(before, IsModel)
                   /\ Len(SelectSeq(after, IsManual)) = Len(api.boxes)
             /\ (wk' # wk /\ images'[i] # images[i])
                => SelectSeq(after, IsManual) = SelectSeq(before, IsManual)]_vars

\* The sum of summary.defects_count over the rows of an image table; a row
\* without a summary counts 0.
RECURSIVE SumDefectsCount(_, _)
SumDefectsCount(tbl, ids) ==
    IF ids = {} THEN 0
    ELSE LET i == CHOOSE j \in ids : TRUE
             summary == tbl[i].summary
         IN (IF summary # Null THEN Get(summary).defects_count ELSE 0)
            + SumDefectsCount(tbl, ids \ {i})

\* C22: the defects_found of a job row is never negative and never more
\* than the sum of summary.defects_count over the image rows the job
\* currently has.
C22_DefectsFoundWithinSummaries ==
    \A t \in DOMAIN tasks :
        /\ 0 <= tasks[t].defects_found
        /\ tasks[t].defects_found <= SumDefectsCount(images, DOMAIN images)

C25_InvalidSubmissionLeavesNothing ==
    LET files == intake.files
        breaks == \/ Len(files) = 0
                  \/ Len(files) > MAX_BATCH_FILES
                  \/ TotalBytes(files) > MAX_BATCH_SIZE_BYTES
                  \/ \E k \in 1..Len(files) :
                        Lower(files[k].suffix) \notin SUPPORTED_EXTENSIONS
    IN (intake.pc # "idle" /\ breaks)
       => /\ intake.pc = "rejected"
          /\ intake.error # Null
          /\ Get(intake.error).status_code = 400
          /\ tasks = <<>> /\ images = <<>>
          /\ intake.tasks = <<>> /\ intake.images = <<>>
          /\ blobs = {}
          /\ queue = <<>>

\* A submission of the allowed number of supported image files whose sizes
\* add up to more than the limit was rejected.
C25_Witness ==
    /\ intake.pc = "rejected"
    /\ Len(intake.files) = MAX_BATCH_FILES
    /\ \A k \in 1..Len(intake.files) : Lower(intake.files[k].suffix) \in SUPPORTED_EXTENSIONS
    /\ TotalBytes(intake.files) > MAX_BATCH_SIZE_BYTES
    /\ Get(intake.error) = [status_code |-> 400, detail |-> "too large"]

\* C24: a DeleteImage call that ends with 204 leaves the image without a
\* row, and over all the calls for one image, concurrent ones included, the
\* blob ids of the image are handed back for deletion exactly once: the
\* call that ends first hands them back and no other call does.
C24_DeleteImageReportsOnce ==
    [][\A i \in ImageIds :
          LET reports(a) == {k \in 1..Len(a.reported) : a.reported[k].image_id = i}
          IN reports(api') # reports(api)
             => /\ i \notin DOMAIN images'
                /\ reports(api) = {}
                /\ Cardinality(reports(api')) = 1]_vars

\* C28: a process that connects to the broker at startup makes at most
\* max_retries attempts, makes none after its first successful one, and
\* raises out of the loop only on the failure of attempt max_retries; and
\* no work message is published or handed to a worker, and no event
\* published, by a process whose connection is not established.
C28_ConnectBoundedBeforeUse ==
    [][/\ \A c \in Clients :
             /\ amqp'[c].attempt <= max_retries
             /\ amqp'[c].attempt # amqp[c].attempt
                => (amqp[c].pc = "connecting" /\ amqp'[c].attempt = amqp[c].attempt + 1)
             /\ amqp[c].pc # "connecting" => amqp'[c].attempt = amqp[c].attempt
             /\ (amqp'[c].pc = "raised" /\ amqp[c].pc # "raised")
                => amqp'[c].attempt = max_retries
             /\ (amqp[c].pc = "connecting" /\ amqp'[c].pc = "connecting"
                    /\ amqp'[c].attempt # amqp[c].attempt)
                => amqp'[c].attempt < max_retries
       /\ Len(queue') > Len(queue) /\ intake' # intake => amqp["api"].pc = "connected"
       /\ updates'.pending # updates.pending /\ Len(updates'.pending) < Len(updates.pending)
          => amqp["api"].pc = "connected"
       /\ \A w \in Workers :
             (wk'[w] # wk[w] /\ (wk'[w].msg # wk[w].msg \/ lastUpdate' # lastUpdate))
             => amqp[w].pc = "connected"]_vars

\* The API connected on its last attempt, the worker on its second one, and
\* the worker holds the work message the API published.
C28_Witness ==
    /\ amqp["api"] = [pc |-> "connected", attempt |-> max_retries]
    /\ \E w \in Workers :
          /\ amqp[w] = [pc |-> "connected", attempt |-> 2]
          /\ wk[w].msg # Null

\* C21: the results archive of a Completed job holds, for every Completed
\* image row of the job, exactly one annotated entry, named after the file
\* of the row, and no other annotated entry; every entry lies in one of the
\* two folders, in the folder of defects if and only if the summary the
\* detector gave for the image has has_defects.
C21_ArchiveMatchesCompletedImages ==
    \A t \in DOMAIN tasks :
        (tasks[t].status = COMPLETED /\ tasks[t].results_archive_file_id # Null)
        => LET zip == archives[Get(tasks[t].results_archive_file_id)]
               done == {i \in DOMAIN images : images[i].status = COMPLETED}
               entries(i) == {k \in 1..Len(zip) :
                                 zip[k].name = AnnotatedName(images[i].file_name)}
           IN /\ \A i \in done :
                    /\ Cardinality(entries(i)) = 1
                    /\ \A k \in entries(i) :
                          zip[k].folder = DamagedFolder
                             <=> Get(images[i].summary).has_defects
              /\ \A k \in 1..Len(zip) :
                    /\ zip[k].folder \in {DamagedFolder, IntactFolder}
                    /\ \E i \in done : k \in entries(i)
              /\ \A i, j \in done : i # j => entries(i) \cap entries(j) = {}

\* C26: at any time at most one worker is inside process_task for a given
\* job, also after the broker has handed the message of the job out again.
C26_OneWorkerPerJob ==
    \A v, w \in DOMAIN wk :
        (/\ v # w
         /\ wk[v].pc \notin {"idle", "ack"}
         /\ wk[w].pc \notin {"idle", "ack"})
        => Get(wk[v].msg).task_id # Get(wk[w].msg).task_id

\* C30: in the bulk pass the row that a step of the worker writes for the
\* chunk entry it is at (status, summary, error) is the row of that entry:
\* its file name is the name of the entry and its original blob is the one
\* uploaded for the entry, also when the batch upload stored only some of
\* the files of the chunk.
C30_BulkRowBelongsToEntry ==
    [][\A w \in DOMAIN wk :
          (wk[w].pass = "bulk" /\ wk[w].pc \in {"img_start", "img_run"} /\ wk'[w] # wk[w])
          => \A i \in (DOMAIN images) \cap (DOMAIN images') :
                images'[i] # images[i]
                => /\ images[i].file_name = CurrentFile(wk[w])
                   /\ images[i].file_id = Blob("orig", wk[w].delivery, CurrentFile(wk[w]))]_vars

\* C31: the step of a worker that deletes the staging archive is taken
\* only when the results archive is uploaded and its blob id is in the job
\* row; and a run that ends because the upload of the results archive
\* failed leaves the staging archive in the Blob Store.
C31_StagingDeletedAfterResults ==
    [][\A w \in DOMAIN wk :
          /\ (wk'[w] # wk[w] /\ StagingBlob \in blobs /\ StagingBlob \notin blobs')
             => /\ TaskId \in DOMAIN tasks
                /\ tasks[TaskId].results_archive_file_id # Null
                /\ Get(tasks[TaskId].results_archive_file_id) \in blobs
          /\ (wk[w].pc = "archive" /\ wk'[w].outcome = "blob")
             => StagingBlob \in blobs']_vars

\* The blob ids a job row and its image rows reference that are still in
\* the Blob Store.
OwnedBlobs(task, imgs, store) ==
    ({imgs[i].file_id : i \in DOMAIN imgs}
     \cup {Get(imgs[i].result_file_id) : i \in {j \in DOMAIN imgs : imgs[j].result_file_id # Null}}
     \cup (IF task.results_archive_file_id # Null
           THEN {Get(task.results_archive_file_id)} ELSE {})
     \cup (IF task.originals_archive_file_id # Null
           THEN {Get(task.originals_archive_file_id)} ELSE {}))
    \cap store

\* C39: the step that deletes a job hands back every blob id that the job
\* row or one of its image rows references and that is still stored, the
\* staging archive included when the worker has not deleted it.
C39_DeleteJobReportsOwnedBlobs ==
    [][(TaskId \in DOMAIN tasks /\ TaskId \notin DOMAIN tasks')
          => OwnedBlobs(tasks[TaskId], images, blobs) \subseteq api'.file_ids]_vars

\* C38: a blob id that a job row references, for the staging archive or
\* for the results archive, is the id of a blob in the Blob Store: after
\* the worker deleted the staging archive the row has no staging id.
C38_JobRowReferencesStoredBlobs ==
    \A t \in DOMAIN tasks :
        /\ tasks[t].originals_archive_file_id # Null
           => Get(tasks[t].originals_archive_file_id) \in blobs
        /\ tasks[t].results_archive_file_id # Null
           => Get(tasks[t].results_archive_file_id) \in blobs

\* C37: a job never has more image rows than its total_files, also after
\* a redelivered message made the bulk pass run again.
C37_ImageRowsWithinTotal ==
    \A t \in DOMAIN tasks : Cardinality(DOMAIN images) <= tasks[t].total_files

\* C34: in every step the status of an image row moves forward on the
\* path Queued -> Processing -> {Completed | Failed} or stays, and a row
\* that is Completed or Failed keeps its status in every later step,
\* whether of a promotion, an annotate or metrics request, or a run for a
\* redelivered message.
C34_ImageStatusMonotonic ==
    [][\A i \in (DOMAIN images) \cap (DOMAIN images') :
           /\ StatusRank(images[i].status) <= StatusRank(images'[i].status)
           /\ images[i].status \in Terminal => images'[i].status = images[i].status]_vars

\* C35: the step that writes the final status of a job leaves a row with
\* processed_files + failed_files = total_files, also when a batch upload
\* of the intake or of a chunk stored only some of its files.
C35_FinalCountersCoverTotal ==
    [][\A w \in DOMAIN wk :
          (wk[w].pc = "finalize" /\ wk'[w].pc = "publish_final" /\ TaskId \in DOMAIN tasks')
          => tasks'[TaskId].processed_files + tasks'[TaskId].failed_files
                = tasks'[TaskId].total_files]_vars

\* C36: when a send_to_task call ends during which a socket connected to
\* or disconnected from the set the call was iterating over, every socket
\* that was registered for the event when the call began, is still
\* registered and open, of the job and of the history alike, has received
\* the event.
C36_FanoutSurvivesChurn ==
    [][(/\ fanout.pc # "idle"
        /\ fanout'.pc = "idle"
        /\ \/ fanout.changed
           \/ Cardinality(Iterated(fanout, connections, history_connections)) # fanout.used)
       => LET e == Get(fanout.data)
          IN \A ws \in fanout.start :
                (/\ ws \in connections'[e.task_id] \cup history_connections'
                 /\ sockets'[ws].state = "open")
                => e.n \in sockets'[ws].received]_vars

\* The rows of an image table that carry the preview flag.
Flagged(tbl) == {i \in DOMAIN tbl : tbl[i].is_preview}

\* The rows that were processed successfully and whose detection has
\* (defective = TRUE) or has not (FALSE) a defect.
Done(tbl, defective) ==
    {i \in DOMAIN tbl : /\ tbl[i].status = COMPLETED
                        /\ tbl[i].summary # Null
                        /\ Get(tbl[i].summary).has_defects = defective}

\* The k rows of S that were processed first: ids grow in the order in
\* which a run takes the rows.
Earliest(S, k) == {i \in S : Cardinality({j \in S : j < i}) < k}

\* C33: when the final status of a job is written, at most preview_limit
\* of its rows carry the preview flag; a row without a defect is flagged
\* only when fewer than preview_limit rows with a defect were processed
\* successfully; the flagged rows with a defect are the earliest processed
\* ones with a defect, and the flagged rows without are the earliest ones
\* without, as many as the defective ones leave room for.
C33_PreviewsDefectFirst ==
    [][\A w \in DOMAIN wk :
          (wk[w].pc = "finalize" /\ wk'[w].pc = "publish_final" /\ TaskId \in DOMAIN tasks')
          => LET cap == tasks'[TaskId].preview_limit
                 D == Done(images', TRUE)
                 N == Done(images', FALSE)
                 F == Flagged(images')
             IN /\ Cardinality(F) <= cap
                /\ F \cap N # {} => Cardinality(D) < cap
                /\ F \cap D = Earliest(D, cap)
                /\ F \cap N = Earliest(N, Max(0, cap - Cardinality(D)))]_vars

\* C32: when the intake has created the rows of a submission, the rows
\* are rows of the first N files, N being no more than the preview_limit
\* of the request, so there are at most preview_limit rows, and every file
\* after the first N is in the staging archive, in submission order.
C32_PreviewPartitionWithinCap ==
    intake.pc \in {"flushed", "published", "committed"}
    => LET N == Min(intake.n, intake.preview_limit)
           rows == intake.images
       IN /\ Cardinality(DOMAIN rows) <= intake.preview_limit
          /\ \A i \in DOMAIN rows : rows[i].file_name \in 1..N
          /\ intake.archive_files = [k \in 1..(intake.n - N) |-> N + k]
=============================================================================
